---- MODULE Spec2Model ----
(***************************************************************************)
(* Review-scoring and feedback-driven retraining pipeline of ReviewCheck.  *)
(*                                                                         *)
(* Database tables are sequences/sets of rows, the retrain folder          *)
(* scripts/rf_models_retrained is a sequence of directories in mtime       *)
(* order, and every process (a run of check_and_process_jobs, a            *)
(* submit_feedback request, the background task of an analysis) is a       *)
(* program counter with its local variables.                               *)
(*                                                                         *)
(* Scores are kept in tenths of a point (85.0 is 850), label confidences   *)
(* in thousandths.                                                         *)
(***************************************************************************)
EXTENDS Integers, Sequences, FiniteSets, TLC

VARIABLES
    jobs,              \* table ai_jobs: job_id = index, in submitted_at order
    models,            \* table ai_models: model_id = index
    current_ai_model,  \* main.py global: model_id loaded at startup, 0 = None
    artifacts,         \* scripts/rf_models_retrained/, oldest mtime first
    clock,             \* datetime.now() at second resolution
    wk,                \* per run of check_and_process_jobs: its locals
    scorer,            \* the classifier the last SmartReviewScorer resolved
    feedbacks,         \* table feedbacks
    next_feedback_id,  \* its autoincrement feedback_id
    req,               \* per submit_feedback request: its session and locals
    resp,              \* per request: the last response (status code and body)
    saved_by,          \* per request: its last committed submission and the rows it stored (history)
    submits,           \* submit_feedback requests received so far
    analyses,          \* table analyses: analysis_id = index
    task,              \* per analysis: its background task (pc and locals)
    call,              \* the last call of a scoring or labelling function: arguments and result
    crashed            \* jobs whose training was cut short by the death of the script's process (history)

feedbackVars == <<feedbacks, next_feedback_id, req, resp, saved_by, submits>>

analysisVars == <<analyses, task>>

retrainVars == <<jobs, models, current_ai_model, artifacts, clock, wk, scorer>>

vars == <<jobs, models, current_ai_model, artifacts, clock, wk, scorer,
          feedbacks, next_feedback_id, req, resp, saved_by, submits, analyses, task,
          call, crashed>>

\* ------------------------------------------------------------------ bounds
MaxJobs == 2

\* Two instances of the training script (train_model.py main) at most.
Workers == {1, 2}

\* ------------------------------------------------------- program constants
MinTotalRows == 100
MinClassRows == 5
\* artifact_url "ai_models" of the initial model; a retrained model's
\* artifact_url scripts/rf_models_retrained/model_<t> is the number t >= 1.
BaseArtifact == 0

NoMessage == [kind |-> "none", x |-> 0, y |-> 0]

\* The original training CSV as the script may find it: missing (None), or
\* n1 rows of label 1 and n0 rows of label 0.
OriginalData ==
    { [present |-> FALSE, n1 |-> 0, n0 |-> 0],
      [present |-> TRUE, n1 |-> 49, n0 |-> 48],
      [present |-> TRUE, n1 |-> 50, n0 |-> 49],
      [present |-> TRUE, n1 |-> 50, n0 |-> 50],
      [present |-> TRUE, n1 |-> 96, n0 |-> 4],
      [present |-> TRUE, n1 |-> 95, n0 |-> 5] }

\* --------------------------------------------------------------- helpers
Range(s) == { s[i] : i \in 1..Len(s) }

RECURSIVE SortedSeq(_)
SortedSeq(S) ==
    IF S = {} THEN <<>>
    ELSE LET m == CHOOSE x \in S : \A y \in S : x <= y
         IN  <<m>> \o SortedSeq(S \ {m})

ActiveModels == { m \in 1..Len(models) : models[m].active }

IdleWorker == [pc |-> "idle", pending |-> <<>>, job |-> 0, current_model |-> 0,
               output_dir |-> 0, n1 |-> 0, n0 |-> 0]

\* ------------------------------------------------- rows and file system
NewJob == [type |-> "training", status |-> "pending", error_message |-> NoMessage]

SetJob(j, st, msg) ==
    [jobs EXCEPT ![j] = [@ EXCEPT !.status = st, !.error_message = msg]]

\* The handler of train_random_forest: re-read the job, mark it failed with
\* str(e) and commit.
fail_job(j, msg) == SetJob(j, "failed", msg)

\* A directory of the retrain folder gets the newest mtime when an entry is
\* created in it.
Touch(fs, d, haspkl, j) ==
    LET rest == SelectSeq(fs, LAMBDA e : e.dir # d)
    IN  Append(rest, [dir |-> d, pkl |-> haspkl, job |-> j])

\* combine_data: the rows of both inputs, or a ValueError when neither has any.
combine_data(original, fb) ==
    LET useO == original.present /\ original.n1 + original.n0 > 0
        useF == fb # {}
        f1 == Cardinality({ f \in fb : f.tags = 1 })
        f0 == Cardinality({ f \in fb : f.tags = 0 })
    IN  [raised |-> ~useO /\ ~useF,
         n1 |-> (IF useO THEN original.n1 ELSE 0) + (IF useF THEN f1 ELSE 0),
         n0 |-> (IF useO THEN original.n0 ELSE 0) + (IF useF THEN f0 ELSE 0),
         original |-> IF useO THEN original.n1 + original.n0 ELSE 0,
         feedback |-> IF useF THEN Cardinality(fb) ELSE 0]

\* The two gates of train_random_forest, as the error they report.
insufficient_gate_mutant_le(total) == total <= MinTotalRows

insufficient_gate(total) == total < MinTotalRows

imbalance_gate_mutant_and(n1, n0) == n1 < MinClassRows /\ n0 < MinClassRows

imbalance_gate(n1, n0) == n1 < MinClassRows \/ n0 < MinClassRows

\* ------------------------------------------------------ server start-up
startup_event ==
    /\ \/ /\ ActiveModels # {}
          \* newest active model (created_at desc); model_id grows with created_at
          /\ current_ai_model' = CHOOSE m \in ActiveModels : \A n \in ActiveModels : n <= m
          /\ current_ai_model' # current_ai_model
          /\ UNCHANGED models
       \/ /\ ActiveModels = {}
          /\ models' = Append(models, [version |-> <<1, 0>>, artifact_url |-> BaseArtifact,
                                       active |-> TRUE])
          /\ current_ai_model' = Len(models) + 1
    /\ UNCHANGED <<call, crashed, jobs, artifacts, clock, wk, scorer, feedbackVars, analysisVars>>

\* A retraining job is created outside the script, in status pending.
SubmitJob ==
    /\ Len(jobs) < MaxJobs
    /\ jobs' = Append(jobs, NewJob)
    /\ UNCHANGED <<call, crashed, models, current_ai_model, artifacts, clock, wk, scorer, feedbackVars, analysisVars>>

\* ------------------------------------------------ check_and_process_jobs
check_and_process_jobs(w) ==
    /\ wk[w].pc = "idle"
    /\ LET pending_jobs == SortedSeq({ j \in 1..Len(jobs) :
                               jobs[j].type = "training" /\ jobs[j].status = "pending" })
       IN  /\ pending_jobs # <<>>
           /\ wk' = [wk EXCEPT ![w] = [IdleWorker EXCEPT !.pc = "loop",
                                                         !.pending = pending_jobs]]
    /\ UNCHANGED <<call, crashed, jobs, models, current_ai_model, artifacts, clock, scorer, feedbackVars, analysisVars>>

\* The for loop is over: the run returns.
jobs_done(w) ==
    /\ wk[w].pc = "loop"
    /\ wk[w].pending = <<>>
    /\ wk' = [wk EXCEPT ![w] = IdleWorker]
    /\ UNCHANGED <<call, crashed, jobs, models, current_ai_model, artifacts, clock, scorer, feedbackVars, analysisVars>>

\* Back to the head of the for loop with the next job.
Continue(w) ==
    [wk EXCEPT ![w] = [IdleWorker EXCEPT !.pc = "loop", !.pending = Tail(wk[w].pending)]]

\* Loop head: no active model, the job is failed and the loop continues.
no_active_model(w) ==
    /\ wk[w].pc = "loop"
    /\ wk[w].pending # <<>>
    /\ ActiveModels = {}
    /\ jobs' = SetJob(Head(wk[w].pending), "failed",
                      [kind |-> "no_active_model", x |-> 0, y |-> 0])
    /\ wk' = Continue(w)
    /\ UNCHANGED <<call, crashed, models, current_ai_model, artifacts, clock, scorer, feedbackVars, analysisVars>>

\* Loop head: the active model is read (first(), no ORDER BY) and the output
\* directory model_<now> is named.
take_job(w) ==
    /\ wk[w].pc = "loop"
    /\ wk[w].pending # <<>>
    /\ \E m \in ActiveModels :
          wk' = [wk EXCEPT ![w] = [@ EXCEPT !.pc = "train", !.job = Head(wk[w].pending),
                                            !.current_model = m, !.output_dir = clock + 1]]
    /\ clock' = clock + 1
    /\ UNCHANGED <<call, crashed, jobs, models, current_ai_model, artifacts, scorer, feedbackVars, analysisVars>>

\* train_random_forest returned success = False: logged, next job.
TrainFailed_mutant_ends_run(w, msg) ==
    /\ jobs' = fail_job(wk[w].job, msg)
    /\ wk' = [wk EXCEPT ![w] = IdleWorker]

TrainFailed(w, msg) ==
    /\ jobs' = fail_job(wk[w].job, msg)
    /\ wk' = Continue(w)

Exception == [kind |-> "exception", x |-> 0, y |-> 0]

\* ---------------------------------------------------- train_random_forest
\* 1. the job is marked running and committed, whatever its status was.
status_running_mutant_no_commit(job_id) == jobs

status_running(job_id) == SetJob(job_id, "running", jobs[job_id].error_message)

train_begin(w) ==
    /\ wk[w].pc = "train"
    /\ jobs' = status_running(wk[w].job)
    /\ wk' = [wk EXCEPT ![w].pc = "load"]
    /\ UNCHANGED <<call, crashed, models, current_ai_model, artifacts, clock, scorer, feedbackVars, analysisVars>>

\* 2. load, merge and the two gates.
\* combine_data on the rows of the two frames.  A frame is absent (None) or a
\* sequence of rows [text, label]; the result is the merged frame or the
\* ValueError.
NoFrame == [present |-> FALSE, rows |-> <<>>]

Frame(rows) == [present |-> TRUE, rows |-> rows]

\* df.copy(); df['source'] = source
with_source(df, source) ==
    [i \in 1..Len(df.rows) |->
        [text |-> df.rows[i].text, label |-> df.rows[i].label, source |-> source]]

Usable(df) == df.present /\ Len(df.rows) > 0

datasets_mutant_feedback_first(original_df, feedback_df) ==
    (IF Usable(feedback_df) THEN <<with_source(feedback_df, "feedback")>> ELSE <<>>)
    \o (IF Usable(original_df) THEN <<with_source(original_df, "original")>> ELSE <<>>)

datasets(original_df, feedback_df) ==
    (IF Usable(original_df) THEN <<with_source(original_df, "original")>> ELSE <<>>)
    \o (IF Usable(feedback_df) THEN <<with_source(feedback_df, "feedback")>> ELSE <<>>)

\* pd.concat(datasets, ignore_index=True)
RECURSIVE concat(_)
concat(frames) == IF frames = <<>> THEN <<>> ELSE Head(frames) \o concat(Tail(frames))

combine_data_rows(original_df, feedback_df) ==
    IF datasets(original_df, feedback_df) = <<>>
    THEN [raised |-> TRUE]
    ELSE [raised |-> FALSE, combined_df |-> concat(datasets(original_df, feedback_df))]

train_load_with(w, original) ==
    LET c == combine_data(original, feedbacks)
        total == c.n1 + c.n0
    IN  \/ /\ c.raised
           /\ TrainFailed(w, Exception)
        \/ /\ ~c.raised
           /\ insufficient_gate(total)
           /\ TrainFailed(w, [kind |-> "insufficient", x |-> total, y |-> 0])
        \/ /\ ~c.raised
           /\ ~insufficient_gate(total)
           /\ imbalance_gate(c.n1, c.n0)
           /\ TrainFailed(w, [kind |-> "imbalance", x |-> c.n1, y |-> c.n0])
        \/ /\ ~c.raised
           /\ ~insufficient_gate(total)
           /\ ~imbalance_gate(c.n1, c.n0)
           /\ wk' = [wk EXCEPT ![w] = [@ EXCEPT !.pc = "fit", !.n1 = c.n1, !.n0 = c.n0]]
           /\ UNCHANGED jobs

train_load(w) ==
    /\ wk[w].pc = "load"
    /\ \E original \in OriginalData : train_load_with(w, original)
    /\ UNCHANGED <<call, crashed, models, current_ai_model, artifacts, clock, scorer, feedbackVars, analysisVars>>

\* 3-6. feature extraction, split, fit, evaluation: done, or an exception
\* (the embedding model cannot be loaded, the split fails, ...).
train_fit(w) ==
    /\ wk[w].pc = "fit"
    /\ \/ /\ wk' = [wk EXCEPT ![w].pc = "dump"]
          /\ UNCHANGED jobs
       \/ TrainFailed(w, Exception)
    /\ UNCHANGED <<call, crashed, models, current_ai_model, artifacts, clock, scorer, feedbackVars, analysisVars>>

\* 7. os.makedirs(output_dir) and joblib.dump: both done, or the dump raises
\* after the directory was made.
train_dump(w) ==
    /\ wk[w].pc = "dump"
    /\ \/ /\ artifacts' = Touch(artifacts, wk[w].output_dir, TRUE, wk[w].job)
          /\ wk' = [wk EXCEPT ![w].pc = "metadata"]
          /\ UNCHANGED jobs
       \/ /\ artifacts' = Touch(artifacts, wk[w].output_dir, FALSE, wk[w].job)
          /\ TrainFailed(w, Exception)
    /\ UNCHANGED <<call, crashed, models, current_ai_model, clock, scorer, feedbackVars, analysisVars>>

\* 8. metadata.json is written beside the model, or writing it raises.
train_metadata(w) ==
    /\ wk[w].pc = "metadata"
    /\ \/ /\ artifacts' = Touch(artifacts, wk[w].output_dir, TRUE, wk[w].job)
          /\ wk' = [wk EXCEPT ![w].pc = "complete"]
          /\ UNCHANGED jobs
       \/ /\ TrainFailed(w, Exception)
          /\ UNCHANGED artifacts
    /\ UNCHANGED <<call, crashed, models, current_ai_model, clock, scorer, feedbackVars, analysisVars>>

\* 9. the job is marked completed and committed; success = True is returned.
train_complete(w) ==
    /\ wk[w].pc = "complete"
    /\ jobs' = SetJob(wk[w].job, "completed", jobs[wk[w].job].error_message)
    /\ wk' = [wk EXCEPT ![w].pc = "register"]
    /\ UNCHANGED <<call, crashed, models, current_ai_model, artifacts, clock, scorer, feedbackVars, analysisVars>>

\* -------------------------------------------------- create_new_model_version
NewVersion_mutant_first_minor(old_version) == <<old_version[1], 1>>

NewVersion(old_version) == <<old_version[1], old_version[2] + 1>>

create_new_model_version_mutant_keep_old(w) ==
    /\ wk[w].pc = "register"
    /\ models' = Append(models,
                    [version |-> NewVersion(models[wk[w].current_model].version),
                     artifact_url |-> wk[w].output_dir, active |-> TRUE])
    /\ wk' = Continue(w)
    /\ UNCHANGED <<call, crashed, jobs, current_ai_model, artifacts, clock, scorer, feedbackVars, analysisVars>>

create_new_model_version(w) ==
    /\ wk[w].pc = "register"
    /\ LET old == wk[w].current_model
       IN  models' = Append([models EXCEPT ![old].active = FALSE],
                        [version |-> NewVersion(models[old].version),
                         artifact_url |-> wk[w].output_dir, active |-> TRUE])
    /\ wk' = Continue(w)
    /\ UNCHANGED <<call, crashed, jobs, current_ai_model, artifacts, clock, scorer, feedbackVars, analysisVars>>

\* The commit of create_new_model_version fails: rollback, the exception ends
\* the run of check_and_process_jobs.
create_new_model_version_raises(w) ==
    /\ wk[w].pc = "register"
    /\ wk' = [wk EXCEPT ![w] = IdleWorker]
    /\ UNCHANGED <<call, crashed, jobs, models, current_ai_model, artifacts, clock, scorer, feedbackVars, analysisVars>>

\* ------------------------------------------------------ SmartReviewScorer
\* The newest directory of the retrain folder, if it holds a model file.
get_latest_rf_model ==
    IF artifacts = <<>> THEN [found |-> FALSE, dir |-> BaseArtifact]
    ELSE LET latest == artifacts[Len(artifacts)]
         IN  IF latest.pkl THEN [found |-> TRUE, dir |-> latest.dir]
             ELSE [found |-> FALSE, dir |-> BaseArtifact]

\* SmartReviewScorer.__init__ with use_retrained = True: the classifier file.
ResolveModelPath ==
    LET rf_path == get_latest_rf_model
    IN  IF rf_path.found THEN rf_path.dir ELSE BaseArtifact

\* One analyzer subprocess constructs its scorer (start of a batch analysis).
load_model ==
    /\ scorer' = [loaded |-> TRUE, model_path |-> ResolveModelPath,
                  active_urls |-> { models[m].artifact_url : m \in ActiveModels }]
    /\ scorer' # scorer
    /\ UNCHANGED <<call, crashed, jobs, models, current_ai_model, artifacts, clock, wk, feedbackVars, analysisVars>>

\* ------------------------------------------------ SmartReviewScorer.predict
NoCall == [fn |-> "none"]

\* Numbers of predict are exact fractions num / den of a point; a returned
\* score is in thousandths of a point.
Frac(num, den) == [num |-> num, den |-> den]

\* predict_proba's probability of the positive class, in thousandths.
ProbUnit == 1000

Probabilities == 0..ProbUnit

\* A text as _extract_features sees it: len(text) and whether it contains a
\* product keyword (the shortest has one character) and a delivery keyword
\* (the shortest has two).
TextLengths == {0, 1, 2, 3, 19, 20, 21, 49, 50, 51, 100, 101}

Texts ==
    { t \in [len : TextLengths, has_product : {0, 1}, has_delivery : {0, 1}] :
        /\ t.has_product = 1 => t.len >= 1
        /\ t.has_delivery = 1 => t.len >= 2
        /\ (t.has_product = 1 /\ t.has_delivery = 1) => t.len >= 3 }

\* round(x, ndigits): the multiples of 10^-ndigits nearest to x, in
\* thousandths. x halfway between two of them is not halfway in binary
\* floating point, where either neighbour may be the nearer one.
round(x, ndigits) ==
    LET unit == IF ndigits = 1 THEN 10 ELSE 100
        t == x.num * unit
        q == t \div x.den
        twice == 2 * (t % x.den)
        nearest == IF twice > x.den THEN {q + 1}
                   ELSE IF twice < x.den THEN {q}
                   ELSE {q, q + 1}
    IN  { n * (1000 \div unit) : n \in nearest }

round1_mutant_two_digits(x) == round(x, 2)

round1(x) == round(x, 1)

\* raw_score = probs[1] * 100
raw_score(p) == Frac(p, 10)

\* length_val = min(len(text), 100) / 100.0
length_val(text) == Frac(IF text.len < 100 THEN text.len ELSE 100, 100)

length_bonus_mutant_length_val(text) == length_val(text)

\* length_bonus = min(len(text), 50) / 50.0
length_bonus(text) == Frac(IF text.len < 50 THEN text.len ELSE 50, 50)

Less(x, y) == x.num * y.den < y.num * x.den

\* The delivery rule tried before the product rule.
adjust_mutant_delivery_first(raw, text) ==
    IF text.has_delivery = 1 /\ Less(length_val(text), Frac(2, 10))
    THEN Frac(raw.num * 1, raw.den * 10)
    ELSE IF text.has_product = 0
    THEN Frac(raw.num * 25, raw.den * 100)
    ELSE LET bonus == length_bonus(text)
         IN  Frac(raw.num * (85 * bonus.den + 15 * bonus.num), raw.den * 100 * bonus.den)

\* The keyword rules of predict: final_score from raw_score.
adjust(raw, text) ==
    IF text.has_product = 0
    THEN Frac(raw.num * 25, raw.den * 100)
    ELSE IF text.has_delivery = 1 /\ Less(length_val(text), Frac(2, 10))
    THEN Frac(raw.num * 1, raw.den * 10)
    ELSE LET bonus == length_bonus(text)
         IN  Frac(raw.num * (85 * bonus.den + 15 * bonus.num), raw.den * 100 * bonus.den)

\* The scores predict may return for a text whose classifier probability is p.
predict_result(text, p) ==
    IF text.len = 0 THEN {0}
    ELSE round1(adjust(raw_score(p), text))

model_calls_mutant_always(text) == {"_extract_features", "predict_proba"}

\* The calls predict makes on the loaded models for a text: none for an empty
\* text (if not text: return 0.0), else the embedding and the classifier.
model_calls(text) ==
    IF text.len = 0 THEN {} ELSE {"_extract_features", "predict_proba"}

\* predict returns a score; p is what the loaded classifier gives for the text.
predict ==
    /\ call = NoCall
    /\ \E text \in Texts, p \in Probabilities :
          \E score \in predict_result(text, p) :
             call' = [fn |-> "predict", text |-> text, p |-> p, result |-> score,
                      model_calls |-> model_calls(text)]
    /\ UNCHANGED <<crashed, retrainVars, feedbackVars, analysisVars>>

\* One of the calls predict makes on the loaded models raises, and predict
\* with it.
predict_raises ==
    /\ call = NoCall
    /\ \E text \in Texts :
          /\ model_calls(text) # {}
          /\ \E failing \in model_calls(text) :
                call' = [fn |-> "predict raises", text |-> text, failing |-> failing]
    /\ UNCHANGED <<crashed, retrainVars, feedbackVars, analysisVars>>

\* ------------------------------------------------------- Smart Labeling
\* Label of a review excluded from the training data (None).
None == -1

\* np.mean(scores) as the exact fraction sum / n.
mean(scores) ==
    LET RECURSIVE Sum(_)
        Sum(q) == IF q = <<>> THEN 0 ELSE Head(q) + Sum(Tail(q))
    IN  [sum |-> Sum(scores), n |-> Len(scores)]

\* score > avg_score and score < avg_score
Above(score, avg_score) == score * avg_score.n > avg_score.sum

Below(score, avg_score) == score * avg_score.n < avg_score.sum

smart_label_hybrid_mutant_ge_avg(score, avg_score, user_satisfaction) ==
    IF user_satisfaction = 1
    THEN IF score >= 850 THEN 1
         ELSE IF score <= 350 THEN 0
         ELSE IF ~Below(score, avg_score) THEN 1 ELSE 0
    ELSE IF score <= 350 THEN 0
         ELSE IF score >= 850 THEN 1
         ELSE IF Below(score, avg_score) THEN 0 ELSE 1

smart_label_hybrid(score, avg_score, user_satisfaction) ==
    IF user_satisfaction = 1
    THEN IF score >= 850 THEN 1
         ELSE IF score <= 350 THEN 0
         ELSE IF Above(score, avg_score) THEN 1 ELSE 0
    ELSE IF score <= 350 THEN 0
         ELSE IF score >= 850 THEN 1
         ELSE IF Below(score, avg_score) THEN 0 ELSE 1

smart_label_extreme_mutant_hybrid_thresholds(score, user_satisfaction) ==
    IF score >= 850 THEN 1
    ELSE IF score <= 350 THEN 0
    ELSE None

\* An unsatisfied user's high scores are left out.
smart_label_extreme_mutant_unsatisfied_drops_high(score, user_satisfaction) ==
    IF user_satisfaction = 1
    THEN IF score >= 800 THEN 1
         ELSE IF score <= 400 THEN 0
         ELSE None
    ELSE IF score <= 400 THEN 0
         ELSE None

smart_label_extreme(score, user_satisfaction) ==
    IF user_satisfaction = 1
    THEN IF score >= 800 THEN 1
         ELSE IF score <= 400 THEN 0
         ELSE None
    ELSE IF score <= 400 THEN 0
         ELSE IF score >= 800 THEN 1
         ELSE None

smart_label_relative_mutant_same_test(score, avg_score, user_satisfaction) ==
    IF Above(score, avg_score) THEN 1 ELSE 0

smart_label_relative(score, avg_score, user_satisfaction) ==
    IF user_satisfaction = 1
    THEN IF Above(score, avg_score) THEN 1 ELSE 0
    ELSE IF Below(score, avg_score) THEN 0 ELSE 1

\* min(score / 100, 1.0) and min((100 - score) / 100, 1.0), in thousandths
calculate_label_confidence(score, label) ==
    IF label = 1
    THEN IF score <= 1000 THEN score ELSE 1000
    ELSE IF 1000 - score <= 1000 THEN 1000 - score ELSE 1000

Strategies == {"weak", "hybrid", "extreme", "relative", "other"}

apply_strategy_mutant_weak_is_hybrid(strategy, score, avg_score, user_satisfaction) ==
    CASE strategy = "extreme" -> smart_label_extreme(score, user_satisfaction)
      [] strategy = "relative" -> smart_label_relative(score, avg_score, user_satisfaction)
      [] OTHER -> smart_label_hybrid(score, avg_score, user_satisfaction)

\* The strategy dispatch of submit_feedback; an unknown strategy is hybrid.
apply_strategy(strategy, score, avg_score, user_satisfaction) ==
    CASE strategy = "weak" -> user_satisfaction
      [] strategy = "hybrid" -> smart_label_hybrid(score, avg_score, user_satisfaction)
      [] strategy = "extreme" -> smart_label_extreme(score, user_satisfaction)
      [] strategy = "relative" -> smart_label_relative(score, avg_score, user_satisfaction)
      [] OTHER -> smart_label_hybrid(score, avg_score, user_satisfaction)

\* Scores and batch averages the labelling functions are called with: the
\* thresholds of the strategies and their neighbours, and values beyond 0
\* and 100.
LabelScores ==
    {-50, 0, 100, 200, 349, 350, 351, 399, 400, 401, 500, 600, 650,
     799, 800, 801, 849, 850, 851, 900, 1000, 1200}

\* Averages just below, at and just above a score, and two fixed ones.
Averages(score) ==
    { [sum |-> 3 * score + d, n |-> 3] : d \in {-1, 0, 1} }
        \cup { [sum |-> 500, n |-> 1], [sum |-> 650, n |-> 1] }

call_smart_label_hybrid ==
    /\ call = NoCall
    /\ \E score \in LabelScores, user_satisfaction \in {0, 1} :
       \E avg_score \in Averages(score) :
          call' = [fn |-> "smart_label_hybrid", score |-> score, avg_score |-> avg_score,
                   user_satisfaction |-> user_satisfaction,
                   result |-> smart_label_hybrid(score, avg_score, user_satisfaction)]
    /\ UNCHANGED <<crashed, retrainVars, feedbackVars, analysisVars>>

call_smart_label_extreme ==
    /\ call = NoCall
    /\ \E score \in LabelScores, user_satisfaction \in {0, 1} :
          call' = [fn |-> "smart_label_extreme", score |-> score,
                   user_satisfaction |-> user_satisfaction,
                   result |-> smart_label_extreme(score, user_satisfaction)]
    /\ UNCHANGED <<crashed, retrainVars, feedbackVars, analysisVars>>

call_smart_label_relative ==
    /\ call = NoCall
    /\ \E score \in LabelScores, user_satisfaction \in {0, 1} :
       \E avg_score \in Averages(score) :
          call' = [fn |-> "smart_label_relative", score |-> score, avg_score |-> avg_score,
                   user_satisfaction |-> user_satisfaction,
                   result |-> smart_label_relative(score, avg_score, user_satisfaction)]
    /\ UNCHANGED <<crashed, retrainVars, feedbackVars, analysisVars>>

call_calculate_label_confidence ==
    /\ call = NoCall
    /\ \E score \in LabelScores, label \in {0, 1} :
          call' = [fn |-> "calculate_label_confidence", score |-> score, label |-> label,
                   result |-> calculate_label_confidence(score, label)]
    /\ UNCHANGED <<crashed, retrainVars, feedbackVars, analysisVars>>

\* ------------------------------------------------------- submit_feedback
Requests == {1, 2}

MaxSubmits == 2

IdleRequest == [pc |-> "idle", analysis_id |-> 0, is_helpful |-> FALSE,
                strategy |-> "hybrid", all_reviews |-> <<>>, deleted |-> {}]

NoResponse == [code |-> 0, feedback_count |-> 0, saved |-> 0, skipped |-> 0,
               label_0 |-> 0, label_1 |-> 0, total_reviews |-> 0]

ErrorResponse(code) == [NoResponse EXCEPT !.code = code]

NothingSaved == [analysis_id |-> 0, rows |-> {}, strategy |-> "", is_helpful |-> FALSE]

RowsOf(table, analysis_id) == { f \in table : f.analysis_id = analysis_id }

\* review.get('reliability_score', 0)
get_reliability_score(review) == IF review.has_score THEN review.reliability_score ELSE 0

\* Step 6 of submit_feedback: the loop over all_reviews. acc holds the rows
\* added to the session (in order), the counters, and whether the local
\* variable label was ever assigned (a review without text skips the
\* assignment).
RECURSIVE label_loop(_, _, _, _, _)
label_loop(reviews, request, avg_score, user_satisfaction, acc) ==
    IF reviews = <<>> THEN acc
    ELSE LET review == Head(reviews)
             score == get_reliability_score(review)
             label == apply_strategy(request.strategy, score, avg_score, user_satisfaction)
             next ==
                 IF review.text = "" THEN acc
                 ELSE IF label = None
                      THEN [acc EXCEPT !.skipped = @ + 1, !.label_bound = TRUE]
                 ELSE [rows |-> Append(acc.rows,
                                   [analysis_id |-> request.analysis_id,
                                    review_text |-> review.text,
                                    confidence |-> score,
                                    tags |-> label,
                                    original_score |-> score,
                                    labeling_strategy |-> request.strategy,
                                    label_confidence |->
                                        calculate_label_confidence(score, label)]),
                       saved |-> acc.saved + 1,
                       skipped |-> acc.skipped,
                       label_0 |-> acc.label_0 + (IF label = 0 THEN 1 ELSE 0),
                       label_1 |-> acc.label_1 + (IF label = 1 THEN 1 ELSE 0),
                       label_bound |-> TRUE]
         IN  label_loop(Tail(reviews), request, avg_score, user_satisfaction, next)

EmptyBatch == [rows |-> <<>>, saved |-> 0, skipped |-> 0, label_0 |-> 0, label_1 |-> 0,
               label_bound |-> FALSE]

\* The average taken over the reviews that have text only.
Labelled_mutant_mean_of_texts(request) ==
    LET texts == SelectSeq(request.all_reviews, LAMBDA rv : rv.text # "")
        scores == [i \in 1..Len(texts) |-> get_reliability_score(texts[i])]
    IN  label_loop(request.all_reviews, request,
                   IF texts = <<>> THEN [sum |-> 500, n |-> 1] ELSE mean(scores),
                   IF request.is_helpful THEN 1 ELSE 0, EmptyBatch)

\* A review without text counted as skipped.
Labelled_mutant_textless_skipped(request) ==
    LET scores == [i \in 1..Len(request.all_reviews) |->
                      get_reliability_score(request.all_reviews[i])]
        texts == SelectSeq(request.all_reviews, LAMBDA rv : rv.text # "")
    IN  [label_loop(request.all_reviews, request, mean(scores),
                    IF request.is_helpful THEN 1 ELSE 0, EmptyBatch)
            EXCEPT !.skipped = @ + Len(request.all_reviews) - Len(texts)]

\* Steps 3, 4 and 6: the average of all scores, the satisfaction and the loop.
Labelled(request) ==
    LET scores == [i \in 1..Len(request.all_reviews) |->
                      get_reliability_score(request.all_reviews[i])]
    IN  label_loop(request.all_reviews, request, mean(scores),
                   IF request.is_helpful THEN 1 ELSE 0, EmptyBatch)

\* The INSERTs of the flush: the session's new rows with their feedback_ids.
Inserted(rows, first_id) ==
    { [feedback_id |-> first_id + i - 1,
       analysis_id |-> rows[i].analysis_id,
       review_text |-> rows[i].review_text,
       confidence |-> rows[i].confidence,
       tags |-> rows[i].tags,
       original_score |-> rows[i].original_score,
       labeling_strategy |-> rows[i].labeling_strategy,
       label_confidence |-> rows[i].label_confidence] : i \in 1..Len(rows) }

\* Unknown ids answer 400 like the other refusals.
http_error_mutant_unknown_is_400(analysis_id) ==
    IF analysis_id > Len(analyses) THEN 400
    ELSE IF analyses[analysis_id].status # "completed" THEN 400
    ELSE IF analyses[analysis_id].top_reviews \o analyses[analysis_id].worst_reviews = <<>>
         THEN 400
    ELSE 0

\* Steps 1 and 2: the status code of the HTTPException raised for this
\* analysis_id, 0 when none is raised.
http_error(analysis_id) ==
    IF analysis_id > Len(analyses) THEN 404
    ELSE IF analyses[analysis_id].status # "completed" THEN 400
    ELSE IF analyses[analysis_id].top_reviews \o analyses[analysis_id].worst_reviews = <<>>
         THEN 400
    ELSE 0

\* Steps 1-4: the request arrives; the analysis is looked up and checked, the
\* reviews are collected. 404 and 400 end the request.
submit_feedback(r) ==
    /\ req[r].pc = "idle"
    /\ submits < MaxSubmits
    /\ submits' = submits + 1
    /\ \E analysis_id \in 1..(Len(analyses) + 1), is_helpful \in BOOLEAN,
          strategy \in Strategies :
          IF http_error(analysis_id) # 0
          THEN /\ resp' = [resp EXCEPT ![r] = ErrorResponse(http_error(analysis_id))]
               /\ UNCHANGED req
          ELSE /\ req' = [req EXCEPT ![r] =
                            [pc |-> "delete", analysis_id |-> analysis_id,
                             is_helpful |-> is_helpful, strategy |-> strategy,
                             all_reviews |-> analyses[analysis_id].top_reviews
                                             \o analyses[analysis_id].worst_reviews,
                             deleted |-> {}]]
               /\ UNCHANGED resp
    /\ UNCHANGED <<call, crashed, retrainVars, feedbacks, next_feedback_id, saved_by, analysisVars>>

\* The rows a DELETE of this request removes are locked by another session
\* that deleted them and has not committed yet.
Locked(r, rows) ==
    \E o \in Requests \ {r} : req[o].pc = "commit" /\ req[o].deleted \cap rows # {}

delete_existing_mutant_same_strategy(r) ==
    /\ req[r].pc = "delete"
    /\ LET rows == { f \in RowsOf(feedbacks, req[r].analysis_id) :
                        f.labeling_strategy = req[r].strategy }
       IN  /\ ~Locked(r, rows)
           /\ req' = [req EXCEPT ![r] = [@ EXCEPT !.pc = "commit", !.deleted = rows]]
    /\ UNCHANGED <<call, crashed, retrainVars, feedbacks, next_feedback_id, resp, saved_by, submits,
                   analysisVars>>

\* A DELETE without its WHERE clause.
delete_existing_mutant_every_row(r) ==
    /\ req[r].pc = "delete"
    /\ ~Locked(r, feedbacks)
    /\ req' = [req EXCEPT ![r] = [@ EXCEPT !.pc = "commit", !.deleted = feedbacks]]
    /\ UNCHANGED <<call, crashed, retrainVars, feedbacks, next_feedback_id, resp, saved_by, submits,
                   analysisVars>>

\* Step 5: DELETE FROM feedbacks WHERE analysis_id = ?, run in the request's
\* transaction on the rows committed so far.
delete_existing(r) ==
    /\ req[r].pc = "delete"
    /\ LET rows == RowsOf(feedbacks, req[r].analysis_id)
       IN  /\ ~Locked(r, rows)
           /\ req' = [req EXCEPT ![r] = [@ EXCEPT !.pc = "commit", !.deleted = rows]]
    /\ UNCHANGED <<call, crashed, retrainVars, feedbacks, next_feedback_id, resp, saved_by, submits,
                   analysisVars>>

\* Steps 6-8: the labelling loop, db.commit() and the response. The log line
\* after the commit formats the local variable label: when no review had
\* text it was never assigned, the handler answers 500 and its rollback
\* finds the transaction already committed.
commit_feedback(r) ==
    /\ req[r].pc = "commit"
    /\ LET done == Labelled(req[r])
           new == Inserted(done.rows, next_feedback_id)
       IN  /\ feedbacks' = (feedbacks \ req[r].deleted) \cup new
           /\ next_feedback_id' = next_feedback_id + Len(done.rows)
           /\ saved_by' = [saved_by EXCEPT ![r] =
                               [analysis_id |-> req[r].analysis_id, rows |-> new,
                                strategy |-> req[r].strategy,
                                is_helpful |-> req[r].is_helpful]]
           /\ resp' = [resp EXCEPT ![r] =
                          IF done.label_bound
                          THEN [code |-> 200, feedback_count |-> done.saved,
                                saved |-> done.saved, skipped |-> done.skipped,
                                label_0 |-> done.label_0, label_1 |-> done.label_1,
                                total_reviews |-> Len(req[r].all_reviews)]
                          ELSE ErrorResponse(500)]
    /\ req' = [req EXCEPT ![r] = IdleRequest]
    /\ UNCHANGED <<call, crashed, retrainVars, submits, analysisVars>>

rollback_feedback_mutant_keeps_delete(r) ==
    /\ req[r].pc = "commit"
    /\ feedbacks' = feedbacks \ req[r].deleted
    /\ resp' = [resp EXCEPT ![r] = ErrorResponse(500)]
    /\ req' = [req EXCEPT ![r] = IdleRequest]
    /\ UNCHANGED <<call, crashed, retrainVars, next_feedback_id, saved_by, submits, analysisVars>>

\* An exception between the DELETE and the commit (a stored score that is not
\* a number, a database error): db.rollback() and 500.
rollback_feedback(r) ==
    /\ req[r].pc = "commit"
    /\ resp' = [resp EXCEPT ![r] = ErrorResponse(500)]
    /\ req' = [req EXCEPT ![r] = IdleRequest]
    /\ UNCHANGED <<call, crashed, retrainVars, feedbacks, next_feedback_id, saved_by, submits, analysisVars>>

\* Completed analyses with their stored reviews, one still processing, one
\* completed without reviews and one whose only review has no text.
Review(text, score) == [text |-> text, reliability_score |-> score, has_score |-> TRUE]

\* A stored review without the key reliability_score.
UnscoredReview(text) == [text |-> text, reliability_score |-> 0, has_score |-> FALSE]

StoredAnalysis(status, verdict, confidence, top, worst) ==
    [status |-> status, verdict |-> verdict, confidence |-> confidence,
     error_message |-> "", review_count |-> Len(top) + Len(worst),
     top_reviews |-> top, worst_reviews |-> worst]

SampleAnalyses ==
    << StoredAnalysis("completed", "suspicious", 5000, <<Review("r1", 900)>>,
                      <<Review("r2", 100), Review("r3", 500)>>),
       StoredAnalysis("completed", "suspicious", 5250, <<Review("r4", 600), Review("", 700)>>,
                      <<Review("r5", 450)>>),
       StoredAnalysis("processing", "", -1, <<>>, <<>>),
       StoredAnalysis("completed", "error", 0, <<>>, <<>>),
       StoredAnalysis("completed", "suspicious", 5000, <<Review("", 500)>>, <<>>) >>

\* Batches of one or two stored reviews: scores at the thresholds of the
\* strategies, beyond 0 and 100, or missing; with and without text.
BatchScores == {-50, 0, 400, 401, 500, 799, 800, 1200}

BatchReviews ==
    { Review(text, score) : text \in {"a", ""}, score \in BatchScores }
        \cup { UnscoredReview(text) : text \in {"a", ""} }

Batches ==
    { <<a>> : a \in BatchReviews } \cup { <<a, b>> : a, b \in BatchReviews }
        \cup { SampleAnalyses[1].top_reviews \o SampleAnalyses[1].worst_reviews }

\* ------------------------------------------------------------ ai_analyzer
\* NULL of a text column and of a numeric column of table analyses.
NullText == ""

NullNumber == -1

\* A review handed to the analyzer: text and content are sequences of
\* characters (an absent key is the empty sequence) and id stands for the
\* fields the analyzer does not read.
AnalyzerReview(id, text, content) == [id |-> id, text |-> text, content |-> content]

Whitespace == {" "}

\* str.strip()
RECURSIVE strip(_)
strip(text) ==
    IF text = <<>> THEN text
    ELSE IF Head(text) \in Whitespace THEN strip(Tail(text))
    ELSE IF text[Len(text)] \in Whitespace THEN strip(SubSeq(text, 1, Len(text) - 1))
    ELSE text

\* review.get('text', '') or review.get('content', '')
get_text(review) == IF review.text # <<>> THEN review.text ELSE review.content

\* preprocess_reviews: copies of the reviews that have text, their text
\* stripped.
RECURSIVE preprocess_reviews(_)
preprocess_reviews(reviews) ==
    IF reviews = <<>> THEN <<>>
    ELSE LET review == Head(reviews)
             text == get_text(review)
         IN  (IF text = <<>> THEN <<>> ELSE <<[review EXCEPT !.text = strip(text)]>>)
                 \o preprocess_reviews(Tail(reviews))

\* round(num / den) to the nearest integer, ties to even.
RoundDiv(num, den) ==
    LET q == num \div den
        twice == 2 * (num % den)
    IN  IF twice > den THEN q + 1
        ELSE IF twice < den THEN q
        ELSE IF q % 2 = 0 THEN q ELSE q + 1

\* ----------------------------------------------------- binary64 arithmetic
\* The scores are Python floats (numpy float64): IEEE 754 binary64, 53
\* significant bits, every operation rounded to nearest, ties to even.  A
\* natural number is a sequence of limbs, least significant first; a float is
\* m * 2^e with m a natural number of at most Precision bits.
LimbBits == 15

Limb == 2^LimbBits

Precision == 53

RECURSIVE BigNorm(_)
BigNorm(x) ==
    IF x # <<>> /\ x[Len(x)] = 0 THEN BigNorm(SubSeq(x, 1, Len(x) - 1)) ELSE x

RECURSIVE BigFromInt(_)
BigFromInt(n) == IF n = 0 THEN <<>> ELSE <<n % Limb>> \o BigFromInt(n \div Limb)

RECURSIVE BigAdd(_, _, _)
BigAdd(x, y, carry) ==
    IF x = <<>> /\ y = <<>> THEN BigFromInt(carry)
    ELSE LET a == IF x = <<>> THEN 0 ELSE Head(x)
             b == IF y = <<>> THEN 0 ELSE Head(y)
             s == a + b + carry
         IN  <<s % Limb>> \o BigAdd(IF x = <<>> THEN <<>> ELSE Tail(x),
                                    IF y = <<>> THEN <<>> ELSE Tail(y), s \div Limb)

\* x * n + carry, for n up to Limb.
RECURSIVE BigMul(_, _, _)
BigMul(x, n, carry) ==
    IF x = <<>> THEN BigFromInt(carry)
    ELSE LET p == Head(x) * n + carry
         IN  <<p % Limb>> \o BigMul(Tail(x), n, p \div Limb)

RECURSIVE BigDivRec(_, _, _)
BigDivRec(x, n, r) ==
    IF x = <<>> THEN [q |-> <<>>, r |-> r]
    ELSE LET cur == r * Limb + x[Len(x)]
             rest == BigDivRec(SubSeq(x, 1, Len(x) - 1), n, cur % n)
         IN  [q |-> rest.q \o <<cur \div n>>, r |-> rest.r]

\* Quotient and remainder of x by n, for n up to Limb.
BigDivMod(x, n) ==
    LET d == BigDivRec(x, n, 0) IN [q |-> BigNorm(d.q), r |-> d.r]

RECURSIVE BigLess(_, _)
BigLess(x, y) ==
    IF Len(x) # Len(y) THEN Len(x) < Len(y)
    ELSE IF x = <<>> THEN FALSE
    ELSE IF x[Len(x)] # y[Len(y)] THEN x[Len(x)] < y[Len(y)]
    ELSE BigLess(SubSeq(x, 1, Len(x) - 1), SubSeq(y, 1, Len(y) - 1))

RECURSIVE IntBits(_)
IntBits(n) == IF n = 0 THEN 0 ELSE 1 + IntBits(n \div 2)

BigBits(x) == IF x = <<>> THEN 0 ELSE (Len(x) - 1) * LimbBits + IntBits(x[Len(x)])

ShiftLeft(x, s) ==
    IF x = <<>> THEN <<>>
    ELSE [i \in 1..(s \div LimbBits) |-> 0] \o BigMul(x, 2^(s % LimbBits), 0)

\* x shifted right by s bits, and whether a non-zero bit was shifted out.
ShiftRight(x, s) ==
    LET k == s \div LimbBits
    IN  IF k >= Len(x) THEN [q |-> <<>>, sticky |-> x # <<>>]
        ELSE LET d == BigDivMod(SubSeq(x, k + 1, Len(x)), 2^(s % LimbBits))
             IN  [q |-> d.q, sticky |-> d.r # 0 \/ \E i \in 1..k : x[i] # 0]

Odd(x) == x # <<>> /\ x[1] % 2 = 1

\* r * 2^e with r of at most Precision + 1 bits, as a float.
float_normal(r, e) ==
    IF BigBits(r) > Precision THEN [m |-> ShiftRight(r, 1).q, e |-> e + 1]
    ELSE [m |-> r, e |-> e]

\* q * 2^e rounded up when the guard bit is set and the rest is above a half
\* (sticky) or it is a half and q is odd.
float_round_up(q, e, guard, sticky) ==
    float_normal(IF guard /\ (sticky \/ Odd(q)) THEN BigAdd(q, <<>>, 1) ELSE q, e)

\* h holds the kept bits and the guard bit.
float_round_guard(h, e, sticky) ==
    float_round_up(ShiftRight(h.q, 1).q, e, Odd(h.q), sticky \/ h.sticky)

\* m with its lowest s bits rounded away.
float_round_bits(m, e, sticky, s) ==
    IF s <= 0 THEN [m |-> m, e |-> e]
    ELSE float_round_guard(ShiftRight(m, s - 1), e + s, sticky)

\* The float nearest to m * 2^e (plus a fraction of 2^e when sticky), ties to
\* even.
float_round(m, e, sticky) == float_round_bits(m, e, sticky, BigBits(m) - Precision)

float_zero == [m |-> <<>>, e |-> 0]

\* a + b
float_add(a, b) ==
    IF a.m = <<>> THEN b
    ELSE IF b.m = <<>> THEN a
    ELSE LET e == IF a.e < b.e THEN a.e ELSE b.e
         IN  float_round(BigAdd(ShiftLeft(a.m, a.e - e), ShiftLeft(b.m, b.e - e), 0),
                         e, FALSE)

\* a / n for an integer n from 1 to Limb
float_div(a, n) ==
    IF a.m = <<>> THEN a
    ELSE LET d == BigDivMod(ShiftLeft(a.m, Precision + LimbBits), n)
         IN  float_round(d.q, a.e - (Precision + LimbBits), d.r # 0)

\* a < b
float_less(a, b) ==
    LET e == IF a.e < b.e THEN a.e ELSE b.e
    IN  BigLess(ShiftLeft(a.m, a.e - e), ShiftLeft(b.m, b.e - e))

\* The float of a decimal with one digit after the point, given in tenths:
\* what round(final_score, 1) returns and what the literals 0.7 and 0.3 are.
float_of_tenths(k) == float_div([m |-> BigFromInt(k), e |-> 0], 10)

\* sum(final_scores): the scores added one after another.
RECURSIVE float_sum(_, _)
float_sum(scores, total) ==
    IF scores = <<>> THEN total
    ELSE float_sum(Tail(scores), float_add(total, float_of_tenths(Head(scores))))

\* Step 3 of analyze_reviews: the verdict of avg_trust.
verdict_of_trust(avg_trust) ==
    IF float_less(float_of_tenths(7), avg_trust) THEN "safe"
    ELSE IF ~float_less(avg_trust, float_of_tenths(3)) THEN "suspicious"
    ELSE "malicious"

\* Step 3 of analyze_reviews: avg_score = sum(final_scores) / len(final_scores)
\* (0 without scores), avg_trust = avg_score / 100 and the verdict.
verdict_of(final_scores) ==
    verdict_of_trust(
        float_div(IF final_scores = <<>> THEN float_zero
                  ELSE float_div(float_sum(final_scores, float_zero), Len(final_scores)),
                  100))

\* What scorer.predict gives for one review: a score, or PredictRaises when
\* it raises an exception.
PredictRaises == -1

\* An exception leaves the function.
Raised == [raised |-> TRUE]

label_and_color_mutant_verdict_thresholds(score) ==
    IF score > 700 THEN [analysis_label |-> "highly helpful", color_class |-> "status-green"]
    ELSE IF score >= 300
    THEN [analysis_label |-> "partially helpful", color_class |-> "status-orange"]
    ELSE [analysis_label |-> "not helpful", color_class |-> "status-red"]

\* Step 2 of analyze_reviews: the label and the colour of a review.
label_and_color(score) ==
    IF score >= 760 THEN [analysis_label |-> "highly helpful", color_class |-> "status-green"]
    ELSE IF score >= 360
    THEN [analysis_label |-> "partially helpful", color_class |-> "status-orange"]
    ELSE [analysis_label |-> "not helpful", color_class |-> "status-red"]

\* Step 2 of analyze_reviews: the review with its score, label and colour.
enrich(review, score) ==
    [id |-> review.id, text |-> review.text, content |-> review.content,
     reliability_score |-> score,
     analysis_label |-> label_and_color(score).analysis_label,
     color_class |-> label_and_color(score).color_class]

\* analyze_reviews: step 1 scores every review (an exception of predict
\* leaves the function), step 2 enriches the reviews, step 3 gives the
\* verdict and the confidence round(avg_score, 2), in hundredths.
analyze_reviews(reviews, final_scores) ==
    IF \E i \in DOMAIN final_scores : final_scores[i] = PredictRaises THEN Raised
    ELSE LET avg_score == mean(final_scores)
         IN  [raised |-> FALSE,
              verdict |-> verdict_of(final_scores),
              confidence |-> RoundDiv(avg_score.sum * 10, avg_score.n),
              enriched_reviews |-> [i \in DOMAIN reviews |-> enrich(reviews[i], final_scores[i])],
              total_reviews |-> Len(reviews)]

\* The result run returns without an analysis.
ErrorResult == [raised |-> FALSE, verdict |-> "error", confidence |-> 0]

\* ReviewAIAnalyzer.run
run(reviews, model_loaded, final_scores) ==
    IF ~model_loaded \/ preprocess_reviews(reviews) = <<>> THEN ErrorResult
    ELSE analyze_reviews(preprocess_reviews(reviews), final_scores)

\* main of ai_analyzer.py: the JSON it prints.
main(reviews, model_loaded, final_scores) ==
    LET result == run(reviews, model_loaded, final_scores)
    IN  IF result.raised THEN [success |-> FALSE]
        ELSE [success |-> TRUE, result |-> result]

\* What predict may give for the reviews analyze_reviews is called with: 0.0
\* for an empty text, else one of the scores or an exception.
Outcomes(reviews, scores) ==
    { final_scores \in [DOMAIN reviews -> scores \cup {0}] :
         \A i \in DOMAIN reviews :
            IF reviews[i].text = <<>> THEN final_scores[i] = 0
            ELSE final_scores[i] \in scores }

\* Scores of the reviews of one analysis (tenths of a point) and the score
\* lists analyze_reviews is called with.
MaxScores == 3

AnalyzerScores == {0, 299, 300, 301, 314, 699, 700, 701, 794, 992, 1000}

ScoreLists ==
    UNION { [1..n -> AnalyzerScores] : n \in 1..MaxScores }
        \cup { <<480, 513, 379, 101, 27>>, <<915, 456, 729>> }

\* One call of analyze_reviews, after the scorer scored the reviews.
call_analyze_reviews ==
    /\ call = NoCall
    /\ \E final_scores \in ScoreLists :
          LET reviews == [i \in DOMAIN final_scores |-> AnalyzerReview(i, <<"a">>, <<>>)]
          IN  call' = [fn |-> "analyze_reviews", final_scores |-> final_scores,
                       result |-> analyze_reviews(reviews, final_scores)]
    /\ UNCHANGED <<crashed, retrainVars, feedbackVars, analysisVars>>

\* The batches the analyzer script reads from its input: reviews with a
\* text, with surrounding blanks, with a blank text, with content instead of
\* text, and with neither.
MaxReviews == 2

InputTexts ==
    { <<<<"a">>, <<>>>>, <<<<" ", "a", " ">>, <<"b">>>>, <<<<" ">>, <<>>>>,
      <<<<>>, <<"b">>>>, <<<<>>, <<>>>> }

InputBatches ==
    UNION { { [i \in 1..n |-> AnalyzerReview(i, texts[i][1], texts[i][2])] :
                texts \in [1..n -> InputTexts] } : n \in 0..MaxReviews }

\* Scores predict may give when the script runs.
RunScores == {0, 359, 360, 700, 759, 760, 1000}

\* One run of the analyzer script.
call_main ==
    /\ call = NoCall
    /\ \E reviews \in InputBatches, model_loaded \in BOOLEAN :
          \E final_scores \in Outcomes(preprocess_reviews(reviews),
                                        RunScores \cup {PredictRaises}) :
             call' = [fn |-> "main", reviews |-> reviews, model_loaded |-> model_loaded,
                      final_scores |-> final_scores,
                      output |-> main(reviews, model_loaded, final_scores)]
    /\ UNCHANGED <<crashed, retrainVars, feedbackVars, analysisVars>>

\* ------------------------------------------------------- AnalysisService
MaxAnalyses == 2

\* Scores the scorer may give a review (tenths of a point).
ScoreSamples == {290, 300, 700, 710}

\* crawl_result['reviews'] of a successful crawl with filtered_count > 0.
CrawlResults ==
    { <<AnalyzerReview(1, <<"a">>, <<>>)>>,
      <<AnalyzerReview(1, <<"a">>, <<>>), AnalyzerReview(2, <<"b">>, <<>>)>>,
      <<AnalyzerReview(1, <<>>, <<>>)>> }

\* A background task that has ended, and what its analyzer step came to.
Done(outcome) == [pc |-> "done", reviews |-> <<>>, outcome |-> outcome]

NoTask == Done("none")

update_analysis_status(table, analysis_id, status, verdict, confidence, error_message, review_count) ==
    IF analysis_id \notin 1..Len(table) THEN table
    ELSE [table EXCEPT ![analysis_id] =
            [@ EXCEPT !.status = status,
                      !.verdict = IF verdict # NullText THEN verdict ELSE @,
                      !.confidence = IF confidence # NullNumber THEN confidence ELSE @,
                      !.error_message = IF error_message # NullText THEN error_message ELSE @,
                      !.review_count = IF review_count # NullNumber THEN review_count ELSE @]]

create_analysis_mutant_processing ==
    /\ Len(analyses) < Len(task)
    /\ LET fresh == Len(analyses) + 1
       IN  /\ analyses' = Append(analyses,
                  [status |-> "processing", verdict |-> NullText, confidence |-> NullNumber,
                   error_message |-> NullText, review_count |-> NullNumber,
                   top_reviews |-> <<>>, worst_reviews |-> <<>>])
           /\ task' = [task EXCEPT ![fresh] = [pc |-> "start", reviews |-> <<>>, outcome |-> "none"]]
    /\ UNCHANGED <<call, crashed, retrainVars, feedbackVars>>

\* POST /users/analyses: the row is created queued and the background task
\* _process_analysis_background is scheduled.
create_analysis ==
    /\ Len(analyses) < Len(task)
    /\ LET fresh == Len(analyses) + 1
       IN  /\ analyses' = Append(analyses,
                  [status |-> "queued", verdict |-> NullText, confidence |-> NullNumber,
                   error_message |-> NullText, review_count |-> NullNumber,
                   top_reviews |-> <<>>, worst_reviews |-> <<>>])
           /\ task' = [task EXCEPT ![fresh] = [pc |-> "start", reviews |-> <<>>, outcome |-> "none"]]
    /\ UNCHANGED <<call, crashed, retrainVars, feedbackVars>>

Tasks == { a \in 1..Len(analyses) : task[a].pc # "done" }

\* process_analysis step 1: status processing.
process_analysis(a) ==
    /\ task[a].pc = "start"
    /\ analyses' = update_analysis_status(analyses, a, "processing", NullText, NullNumber,
                                          NullText, NullNumber)
    /\ task' = [task EXCEPT ![a].pc = "crawl"]
    /\ UNCHANGED <<call, crashed, retrainVars, feedbackVars>>

\* str(e) of an exception raised inside process_analysis: a message, or the
\* empty string of an exception constructed without arguments.
ExceptionStrings == {"exception", ""}

\* process_analysis step 2: the crawl fails, finds no review to analyse,
\* raises, or returns reviews.
crawl_reviews(a) ==
    /\ task[a].pc = "crawl"
    /\ \/ /\ analyses' = update_analysis_status(analyses, a, "failed", NullText, NullNumber,
                                                "crawl failed", NullNumber)
          /\ task' = [task EXCEPT ![a] = NoTask]
       \/ /\ analyses' = update_analysis_status(analyses, a, "failed", NullText, NullNumber,
                                                "no reviews to analyse", NullNumber)
          /\ task' = [task EXCEPT ![a] = NoTask]
       \/ /\ \E e \in ExceptionStrings :
                analyses' = update_analysis_status(analyses, a, "failed", NullText,
                                                   NullNumber, e, NullNumber)
          /\ task' = [task EXCEPT ![a] = NoTask]
       \/ /\ \E reviews \in CrawlResults :
                task' = [task EXCEPT ![a] = [pc |-> "ai", reviews |-> reviews, outcome |-> "none"]]
          /\ UNCHANGED analyses
    /\ UNCHANGED <<call, crashed, retrainVars, feedbackVars>>

timed_out_mutant_completed(table, a) ==
    update_analysis_status(table, a, "completed", "suspicious", 0, NullText, NullNumber)

\* analyze_with_ai: the TimeoutExpired handler.
timed_out(table, a) ==
    update_analysis_status(table, a, "failed", NullText, NullNumber,
                           "AI analysis timed out", NullNumber)

analysis_error_mutant_no_write(table, a) == table

\* analyze_with_ai: the Exception handler.
analysis_error(table, a) ==
    update_analysis_status(table, a, "failed", NullText, NullNumber,
                           "AI analysis error", NullNumber)

\* What the analyzer step came to when the script printed its JSON.
outcome_of(reviews, model_loaded, output) ==
    IF ~model_loaded THEN "model not loaded"
    ELSE IF preprocess_reviews(reviews) = <<>> THEN "no review with text"
    ELSE IF ~output.success THEN "success false"
    ELSE "analysed"

\* analyze_with_ai: the analyzer subprocess times out, exits non-zero or
\* prints no JSON, or prints its JSON: with success = False the analysis is
\* marked failed, else completed with the verdict and confidence of the
\* result.
analyze_with_ai(a) ==
    /\ task[a].pc = "ai"
    /\ \/ /\ analyses' = timed_out(analyses, a)
          /\ task' = [task EXCEPT ![a] = Done("timed out")]
          /\ UNCHANGED scorer
       \/ /\ analyses' = analysis_error(analyses, a)
          /\ task' = [task EXCEPT ![a] = Done("exit code")]
          /\ UNCHANGED scorer
       \/ \E model_loaded \in BOOLEAN :
          \E final_scores \in Outcomes(preprocess_reviews(task[a].reviews),
                                        ScoreSamples \cup {PredictRaises}) :
             LET output == main(task[a].reviews, model_loaded, final_scores)
             IN  /\ analyses' = IF output.success
                                THEN update_analysis_status(analyses, a, "completed",
                                         output.result.verdict, output.result.confidence,
                                         NullText, Len(task[a].reviews))
                                ELSE analysis_error(analyses, a)
                 /\ task' = [task EXCEPT ![a] =
                                Done(outcome_of(task[a].reviews, model_loaded, output))]
                 /\ scorer' = IF model_loaded
                              THEN [loaded |-> TRUE, model_path |-> ResolveModelPath,
                                    active_urls |-> { models[m].artifact_url :
                                                         m \in ActiveModels }]
                              ELSE scorer
    /\ UNCHANGED <<call, crashed, jobs, models, current_ai_model, artifacts, clock, wk, feedbackVars>>

\* ---------------------------------------------------------- specifications
\* The feedbacks table at the start: empty, or holding the rows of one earlier
\* submission (analysis 1, helpful, hybrid).
InitialFeedback ==
    { {},
      Inserted(Labelled([IdleRequest EXCEPT
                            !.analysis_id = 1, !.is_helpful = TRUE,
                            !.all_reviews = SampleAnalyses[1].top_reviews
                                            \o SampleAnalyses[1].worst_reviews]).rows, 1) }

Init ==
    /\ jobs = <<>>
    /\ models = <<>>
    /\ current_ai_model = 0
    /\ artifacts = <<>>
    /\ clock = 0
    /\ wk = [w \in Workers |-> IdleWorker]
    /\ scorer = [loaded |-> FALSE, model_path |-> BaseArtifact, active_urls |-> {}]
    /\ feedbacks \in InitialFeedback
    /\ next_feedback_id = Cardinality(feedbacks) + 1
    /\ req = [r \in Requests |-> IdleRequest]
    /\ resp = [r \in Requests |-> NoResponse]
    /\ saved_by = [r \in Requests |-> NothingSaved]
    /\ submits = 0
    /\ analyses = SampleAnalyses
    /\ task = [a \in 1..(Len(SampleAnalyses) + MaxAnalyses) |-> NoTask]
    /\ call = NoCall
    /\ crashed = {}

\* One completed analysis with a batch of stored reviews, no feedback yet and
\* one more request to come.
InitBatch ==
    /\ jobs = <<>>
    /\ models = <<>>
    /\ current_ai_model = 0
    /\ artifacts = <<>>
    /\ clock = 0
    /\ wk = [w \in Workers |-> IdleWorker]
    /\ scorer = [loaded |-> FALSE, model_path |-> BaseArtifact, active_urls |-> {}]
    /\ feedbacks = {}
    /\ next_feedback_id = 1
    /\ req = [r \in Requests |-> IdleRequest]
    /\ resp = [r \in Requests |-> NoResponse]
    /\ saved_by = [r \in Requests |-> NothingSaved]
    /\ submits = MaxSubmits - 1
    /\ \E batch \in Batches :
          analyses = <<StoredAnalysis("completed", "suspicious", 5000, batch, <<>>)>>
    /\ task = [a \in 1..(1 + MaxAnalyses) |-> NoTask]
    /\ call = NoCall
    /\ crashed = {}

\* The steps of train_random_forest between its first commit and its last.
TrainingSteps == {"load", "fit", "dump", "metadata", "complete"}

\* The process of the script dies inside train_random_forest after the first
\* commit of a job: nothing more is committed, its locals are gone, and the
\* next start of the script begins from the top.  (Before that commit a death
\* leaves the tables as they were; after the last one it leaves what a failed
\* create_new_model_version leaves.)
crash(w) ==
    /\ wk[w].pc \in TrainingSteps
    /\ crashed' = crashed \cup {wk[w].job}
    /\ wk' = [wk EXCEPT ![w] = IdleWorker]
    /\ UNCHANGED <<call, jobs, models, current_ai_model, artifacts, clock, scorer,
                   feedbackVars, analysisVars>>

\* A call of combine_data on small frames.
MaxRows == 2

RowTexts == {"a", "b"}

Rows == [text : RowTexts, label : {0, 1}]

Frames == {NoFrame} \cup { Frame(rows) : rows \in UNION { [1..n -> Rows] : n \in 0..MaxRows } }

call_combine_data ==
    /\ call = NoCall
    /\ jobs = <<>>
    /\ models = <<>>
    /\ \E original_df \in Frames, feedback_df \in Frames :
          call' = [fn |-> "combine_data", original_df |-> original_df,
                   feedback_df |-> feedback_df,
                   result |-> combine_data_rows(original_df, feedback_df)]
    /\ UNCHANGED <<crashed, retrainVars, feedbackVars, analysisVars>>

Run(w) ==
    \/ check_and_process_jobs(w)
    \/ jobs_done(w)
    \/ no_active_model(w)
    \/ take_job(w)
    \/ train_begin(w)
    \/ train_load(w)
    \/ train_fit(w)
    \/ train_dump(w)
    \/ train_metadata(w)
    \/ train_complete(w)
    \/ create_new_model_version(w)
    \/ create_new_model_version_raises(w)

Environment ==
    \/ startup_event
    \/ SubmitJob
    \/ load_model

\* One instance of the training script at a time.
NextSeq == Environment \/ Run(1) \/ crash(1)

\* Instances of the training script running side by side.
NextConc == startup_event \/ SubmitJob \/ \E w \in Workers : Run(w)

Spec == Init /\ [][NextSeq]_vars

\* The training script one instance at a time, and calls of combine_data on
\* their own.
NextCombine ==
    \/ (call = NoCall /\ NextSeq)
    \/ call_combine_data

SpecCombine == Init /\ [][NextCombine]_vars

\* The script runs before any feedback was submitted.
InitConc == Init /\ feedbacks = {}

SpecConc == InitConc /\ [][NextConc]_vars

Submit(r) ==
    \/ submit_feedback(r)
    \/ delete_existing(r)
    \/ commit_feedback(r)
    \/ rollback_feedback(r)

\* Requests handled one after the other.
NextFeedback == Submit(1)

\* Requests handled side by side by server processes that share the database,
\* each in its own session and transaction.
NextFeedbackConc == \E r \in Requests : Submit(r)

SpecFeedback == Init /\ [][NextFeedback]_vars

SpecFeedbackConc == Init /\ [][NextFeedbackConc]_vars

\* The analysis requests of the web server and their background tasks.
NextAnalysis ==
    \/ create_analysis
    \/ \E a \in Tasks : process_analysis(a)
    \/ \E a \in Tasks : crawl_reviews(a)
    \/ \E a \in Tasks : analyze_with_ai(a)

SpecAnalysis == Init /\ [][NextAnalysis]_vars

\* A background task, once scheduled, runs: BackgroundTasks starts it after the
\* response is sent, the crawl returns or raises, and the analyzer subprocess
\* ends or is stopped by its timeout.
TaskIds == 1..(Len(SampleAnalyses) + MaxAnalyses)

TaskStep(a) == process_analysis(a) \/ crawl_reviews(a) \/ analyze_with_ai(a)

FairAnalysis == \A a \in TaskIds : WF_vars(TaskStep(a))

SpecAnalysisFair == Init /\ [][NextAnalysis]_vars /\ FairAnalysis

\* No request has arrived yet.
NoRequestYet == \A r \in Requests : req[r] = IdleRequest /\ resp[r] = NoResponse

\* One call of a labelling function, or one submission for a batch.
NextLabelling ==
    \/ (NoRequestYet /\ call_smart_label_hybrid)
    \/ (NoRequestYet /\ call_smart_label_extreme)
    \/ (NoRequestYet /\ call_smart_label_relative)
    \/ (NoRequestYet /\ call_calculate_label_confidence)
    \/ (call = NoCall /\ Submit(1))

SpecLabelling == InitBatch /\ [][NextLabelling]_vars

\* Calls of SmartReviewScorer.predict.
NextPredict == predict \/ predict_raises

SpecPredict == Init /\ [][NextPredict]_vars

\* Calls of ReviewAIAnalyzer.analyze_reviews.
NextAnalyzer == call_analyze_reviews \/ call_main

SpecAnalyzer == Init /\ [][NextAnalyzer]_vars

\* ------------------------------------------------------------- properties
JobIds == 1..Len(jobs)

ArtifactsOf(j) == { e \in Range(artifacts) : e.job = j }

\* Every registered model version points at the base model or at a model file
\* some job wrote.
ModelsHaveArtifacts ==
    \A m \in 1..Len(models) :
        \/ models[m].artifact_url = BaseArtifact
        \/ \E e \in Range(artifacts) : e.dir = models[m].artifact_url /\ e.pkl

PastGates(w) == wk[w].pc \in {"fit", "dump", "metadata", "complete", "register"}

\* C1: across server start-ups and runs of the training script, at most one
\* model version is active after every step, and a step that registers a
\* model version leaves the new row active and every earlier row inactive.
C1_OneActiveModel ==
    [][ /\ Cardinality(ActiveModels') <= 1
        /\ Len(models') > Len(models) =>
              /\ models'[Len(models')].active
              /\ \A m \in 1..Len(models) : ~models'[m].active ]_vars

C1_Witness ==
    /\ Len(models) >= 2
    /\ models[Len(models)].active
    /\ models[Len(models)].artifact_url # BaseArtifact
    /\ current_ai_model = Len(models)

\* C2: when a submission for an analysis has been committed and answered 200,
\* the rows stored for that analysis are exactly the rows that submission
\* inserted; rows of earlier submissions for it are gone.
C2_ResubmissionReplaces ==
    (req[1].pc = "idle" /\ resp[1].code = 200) =>
        RowsOf(feedbacks, saved_by[1].analysis_id) = saved_by[1].rows

\* The second of two successful submissions for one analysis has stored rows,
\* and the rows of the first (lower feedback_ids) were deleted.
C2_Witness ==
    /\ req[1].pc = "idle"
    /\ resp[1].code = 200
    /\ submits = 2
    /\ feedbacks # {}
    /\ feedbacks = saved_by[1].rows
    /\ \A f \in feedbacks : f.feedback_id > Cardinality(feedbacks)
    /\ next_feedback_id > 2 * Cardinality(feedbacks)

\* C3: a job that ended failed has published nothing: the scorer's newest
\* retrained model is not a file of that job, and no model version points at
\* a directory of that job.
C3_FailedJobPublishesNothing ==
    \A j \in JobIds :
        (jobs[j].status = "failed" /\ \A w \in Workers : wk[w].job # j) =>
            /\ \A e \in ArtifactsOf(j) :
                  ~(get_latest_rf_model.found /\ get_latest_rf_model.dir = e.dir)
            /\ \A m \in 1..Len(models), e \in ArtifactsOf(j) :
                  models[m].artifact_url # e.dir

\* C4: training goes past the gates only with at least 100 merged rows; a job
\* failed for insufficient data had fewer than 100, stays failed, wrote no
\* file, and no model version was registered for it.
C4_InsufficientDataGate ==
    /\ \A w \in Workers : PastGates(w) => wk[w].n1 + wk[w].n0 >= MinTotalRows
    /\ \A j \in JobIds :
          jobs[j].error_message.kind = "insufficient" =>
              /\ jobs[j].status = "failed"
              /\ jobs[j].error_message.x < MinTotalRows
              /\ ArtifactsOf(j) = {}
    /\ ModelsHaveArtifacts

\* One job failed at the size gate with the active model untouched, and the
\* next is being trained on exactly 100 rows.
C4_Witness ==
    /\ \E j \in JobIds : jobs[j].error_message.kind = "insufficient"
    /\ \E w \in Workers : PastGates(w) /\ wk[w].n1 + wk[w].n0 = MinTotalRows
    /\ Len(models) = 1
    /\ ActiveModels = {1}

\* C5: training goes past the gates only with at least 5 rows of each label;
\* a job failed for class imbalance had at least 100 rows and fewer than 5 of
\* one label, stays failed, wrote no file, and no model version was
\* registered for it.
C5_ClassImbalanceGate ==
    /\ \A w \in Workers :
          PastGates(w) => wk[w].n1 >= MinClassRows /\ wk[w].n0 >= MinClassRows
    /\ \A j \in JobIds :
          jobs[j].error_message.kind = "imbalance" =>
              /\ jobs[j].status = "failed"
              /\ jobs[j].error_message.x + jobs[j].error_message.y >= MinTotalRows
              /\ \/ jobs[j].error_message.x < MinClassRows
                 \/ jobs[j].error_message.y < MinClassRows
              /\ ArtifactsOf(j) = {}
    /\ ModelsHaveArtifacts

C5_Witness ==
    /\ \E j \in JobIds : jobs[j].error_message.kind = "imbalance"
    /\ \E w \in Workers : PastGates(w) /\ wk[w].n0 = MinClassRows
    /\ Len(models) = 1
    /\ ActiveModels = {1}

\* C6: every change of a job's status is pending -> running, running ->
\* completed or running -> failed, so a completed or failed job keeps its
\* status.
C6_JobStatusOneWay ==
    [][ \A j \in JobIds :
           jobs'[j].status # jobs[j].status =>
               <<jobs[j].status, jobs'[j].status>> \in
                   { <<"pending", "running">>, <<"running", "completed">>,
                     <<"running", "failed">> } ]_vars

C8_ScorerUsesActiveModel ==
    (scorer.loaded /\ scorer.active_urls # {}) => scorer.model_path \in scorer.active_urls

\* C9: at most one job is in status running.
C9_OneRunningJob ==
    Cardinality({ j \in JobIds : jobs[j].status = "running" }) <= 1

\* C10: when two requests have both committed a submission for the same
\* analysis and both are answered, the rows stored for it are those of one of
\* the two.
C10_OneFeedbackSet ==
    ( /\ \A r \in Requests : req[r].pc = "idle" /\ resp[r].code = 200
      /\ saved_by[1].analysis_id = saved_by[2].analysis_id ) =>
        \/ RowsOf(feedbacks, saved_by[1].analysis_id) = saved_by[1].rows
        \/ RowsOf(feedbacks, saved_by[1].analysis_id) = saved_by[2].rows

\* Thousandths of a point between a returned score and the exact value
\* num / den (in thousandths), times den.
Distance(score, num, den) ==
    IF score * den >= num THEN score * den - num ELSE num - score * den

PredictCall == call.fn = "predict" /\ call.text.len > 0

\* C11: every score predict returns lies between 0 and 100 and is a
\* multiple of 0.1.
C11_ScoreRange ==
    call.fn = "predict" =>
        /\ 0 <= call.result
        /\ call.result <= 100000
        /\ call.result % 100 = 0

\* Probability 1 with a product keyword and the full length bonus: 100.0.
C11_Witness ==
    /\ call.fn = "predict"
    /\ call.p = ProbUnit
    /\ call.text.has_product = 1
    /\ call.text.has_delivery = 1
    /\ call.text.len >= 50
    /\ call.result = 100000

\* C12: for a non-empty text without product keyword the score is
\* raw * 0.25 rounded to one decimal (within 0.05 of it and a multiple of 0.1),
\* whatever its length and whether or not it has a delivery keyword.
C12_NoProductKeyword ==
    (PredictCall /\ call.text.has_product = 0) =>
        /\ call.result % 100 = 0
        /\ Distance(call.result, 25 * call.p, 1) <= 50

\* A short text with a delivery keyword and no product keyword.
C12_Witness ==
    /\ PredictCall
    /\ call.text.has_product = 0
    /\ call.text.has_delivery = 1
    /\ call.text.len < 20
    /\ call.p = 500
    /\ call.result = 12500

\* C13: the score is one rule's value rounded to one decimal, the first that
\* applies: raw * 0.25 without product keyword; else raw * 0.1 with a
\* delivery keyword and fewer than 20 characters; else
\* raw * 0.85 + raw * 0.15 * min(length, 50) / 50, which is raw itself from
\* 50 characters on.
C13_OneRuleByPriority ==
    PredictCall =>
        LET t == call.text
            capped == IF t.len < 50 THEN t.len ELSE 50
        IN  /\ t.has_product = 0 => Distance(call.result, 25 * call.p, 1) <= 50
            /\ (t.has_product = 1 /\ t.has_delivery = 1 /\ t.len < 20) =>
                   Distance(call.result, 10 * call.p, 1) <= 50
            /\ (t.has_product = 1 /\ ~(t.has_delivery = 1 /\ t.len < 20)) =>
                   Distance(call.result, call.p * (4250 + 15 * capped), 50) <= 50 * 50
            /\ (t.has_product = 1 /\ t.len >= 50) =>
                   Distance(call.result, 100 * call.p, 1) <= 50

\* A product-keyword text of 49 characters scores below raw.
C13_Witness ==
    /\ PredictCall
    /\ call.text.has_product = 1
    /\ call.text.has_delivery = 0
    /\ call.text.len = 49
    /\ call.p = ProbUnit
    /\ call.result = 99700

\* ----------------------------------------------------- labelling properties
\* The batch of the analysis the last committed submission was for, the
\* reviews of it that have text, and the exact mean of all its scores.
SavedBatch ==
    analyses[saved_by[1].analysis_id].top_reviews
        \o analyses[saved_by[1].analysis_id].worst_reviews

ScoreOf(review) == IF review.has_score THEN review.reliability_score ELSE 0

WithText(reviews) == SelectSeq(reviews, LAMBDA rv : rv.text # "")

RECURSIVE SumScores(_)
SumScores(reviews) ==
    IF reviews = <<>> THEN 0 ELSE ScoreOf(Head(reviews)) + SumScores(Tail(reviews))

\* The last submission was answered 200 and used this strategy.
Submitted(strategy) ==
    /\ req[1].pc = "idle"
    /\ resp[1].code = 200
    /\ saved_by[1].strategy = strategy

Satisfied == saved_by[1].is_helpful

\* The stored rows of the batch, as the sequence of their tags by feedback_id.
StoredTags ==
    LET rows == RowsOf(feedbacks, saved_by[1].analysis_id)
        ids == SortedSeq({ f.feedback_id : f \in rows })
    IN  [i \in 1..Len(ids) |-> (CHOOSE f \in rows : f.feedback_id = ids[i]).tags]

StoredScores ==
    LET rows == RowsOf(feedbacks, saved_by[1].analysis_id)
        ids == SortedSeq({ f.feedback_id : f \in rows })
    IN  [i \in 1..Len(ids) |-> (CHOOSE f \in rows : f.feedback_id = ids[i]).original_score]

\* C14: smart_label_hybrid returns 0 or 1, never None: satisfied, 1 from 85,
\* 0 up to 35, else 1 exactly when score > avg; unsatisfied, 0 up to 35,
\* 1 from 85, else 0 exactly when score < avg.
C14_HybridLabel ==
    call.fn = "smart_label_hybrid" =>
        LET above == call.score * call.avg_score.n > call.avg_score.sum
            below == call.score * call.avg_score.n < call.avg_score.sum
        IN  /\ call.result \in {0, 1}
            /\ call.user_satisfaction = 1 =>
                  /\ call.score >= 850 => call.result = 1
                  /\ call.score <= 350 => call.result = 0
                  /\ (call.score > 350 /\ call.score < 850) => (call.result = 1 <=> above)
            /\ call.user_satisfaction = 0 =>
                  /\ call.score <= 350 => call.result = 0
                  /\ call.score >= 850 => call.result = 1
                  /\ (call.score > 350 /\ call.score < 850) => (call.result = 0 <=> below)

\* Satisfied, score 60 against an average of 65: label 0.
C14_Witness ==
    /\ call.fn = "smart_label_hybrid"
    /\ call.user_satisfaction = 1
    /\ call.score = 600
    /\ call.avg_score = [sum |-> 650, n |-> 1]
    /\ call.result = 0

\* C15: smart_label_extreme returns 1 from 80, 0 up to 40 and None strictly
\* between, for both satisfaction values; and a submission with strategy
\* extreme stores rows for exactly the reviews with text whose score is not
\* strictly between 40 and 80.
C15_ExtremeLabel ==
    /\ call.fn = "smart_label_extreme" =>
          call.result = IF call.score >= 800 THEN 1
                        ELSE IF call.score <= 400 THEN 0
                        ELSE None
    /\ Submitted("extreme") =>
          LET kept == SelectSeq(WithText(SavedBatch),
                                LAMBDA rv : ScoreOf(rv) >= 800 \/ ScoreOf(rv) <= 400)
          IN  /\ StoredScores = [i \in 1..Len(kept) |-> ScoreOf(kept[i])]
              /\ StoredTags = [i \in 1..Len(kept) |->
                                  IF ScoreOf(kept[i]) >= 800 THEN 1 ELSE 0]
              /\ resp[1].skipped = Len(WithText(SavedBatch)) - Len(kept)

\* An unsatisfied user, a batch whose reviews score 50 and 80: one row.
C15_Witness ==
    /\ Submitted("extreme")
    /\ ~Satisfied
    /\ Len(SavedBatch) = 2
    /\ ScoreOf(SavedBatch[1]) = 500
    /\ SavedBatch[1].text # ""
    /\ StoredScores = <<800>>
    /\ StoredTags = <<1>>
    /\ resp[1].skipped = 1

\* C16: smart_label_relative returns 0 or 1, never None: satisfied, 1 exactly
\* when score > avg; unsatisfied, 0 exactly when score < avg; and a
\* submission with strategy relative stores a row for every review with text.
C16_RelativeLabel ==
    /\ call.fn = "smart_label_relative" =>
          LET above == call.score * call.avg_score.n > call.avg_score.sum
              below == call.score * call.avg_score.n < call.avg_score.sum
          IN  /\ call.result \in {0, 1}
              /\ call.user_satisfaction = 1 => (call.result = 1 <=> above)
              /\ call.user_satisfaction = 0 => (call.result = 0 <=> below)
    /\ Submitted("relative") =>
          /\ StoredScores = [i \in 1..Len(WithText(SavedBatch)) |->
                                ScoreOf(WithText(SavedBatch)[i])]
          /\ resp[1].skipped = 0

\* Unsatisfied, a score equal to the average: label 1.
C16_Witness ==
    /\ call.fn = "smart_label_relative"
    /\ call.user_satisfaction = 0
    /\ call.score = 500
    /\ call.avg_score = [sum |-> 1500, n |-> 3]
    /\ call.result = 1

\* C17: a submission with strategy weak stores one row for every review with
\* text, each labelled 1 for a satisfied user and 0 otherwise, whatever the
\* scores; nothing is skipped.
C17_WeakLabel ==
    Submitted("weak") =>
        /\ StoredScores = [i \in 1..Len(WithText(SavedBatch)) |->
                              ScoreOf(WithText(SavedBatch)[i])]
        /\ StoredTags = [i \in 1..Len(WithText(SavedBatch)) |-> IF Satisfied THEN 1 ELSE 0]
        /\ resp[1].skipped = 0

\* A satisfied user, reviews scoring 0 and 40: both labelled 1.
C17_Witness ==
    /\ Submitted("weak")
    /\ Satisfied
    /\ StoredScores = <<0, 400>>
    /\ StoredTags = <<1, 1>>

\* C18: the label_confidence of every stored row lies between 0 and 1, and
\* is score / 100 for label 1 and (100 - score) / 100 for label 0 whenever
\* that value lies between 0 and 1.
C18_LabelConfidence ==
    \A f \in feedbacks :
        LET value == IF f.tags = 1 THEN f.original_score ELSE 1000 - f.original_score
        IN  /\ (0 <= value /\ value <= 1000) => f.label_confidence = value
            /\ 0 <= f.label_confidence
            /\ f.label_confidence <= 1000

VerdictOfMean(sum, n) ==
    IF sum > 700 * n THEN "safe"
    ELSE IF sum >= 300 * n THEN "suspicious"
    ELSE "malicious"

\* C20: for every non-empty list of scores, analyze_reviews returns safe
\* exactly when the mean of the scores is greater than 70, suspicious exactly
\* when it is from 30 to 70, both included, and malicious exactly when it is
\* below 30.
C20_VerdictOfMean ==
    call.fn = "analyze_reviews" =>
        LET avg_score == mean(call.final_scores)
        IN  call.result.verdict = VerdictOfMean(avg_score.sum, avg_score.n)

\* The result of the analysis the last call made, if it made one.
Analysed ==
    \/ call.fn = "analyze_reviews"
    \/ call.fn = "main" /\ call.output.success /\ call.output.result.verdict # "error"

AnalysisResult == IF call.fn = "main" THEN call.output.result ELSE call.result

\* C21: the label and the colour of an enriched review follow from its own
\* score: highly helpful and green from 76, partially helpful and orange from
\* 36 to below 76, not helpful and red below 36, whatever the verdict of the
\* batch.
C21_LabelBands ==
    Analysed =>
        \A i \in DOMAIN AnalysisResult.enriched_reviews :
            LET review == AnalysisResult.enriched_reviews[i]
                score == review.reliability_score
            IN  /\ score >= 760 =>
                      /\ review.analysis_label = "highly helpful"
                      /\ review.color_class = "status-green"
                /\ (360 <= score /\ score < 760) =>
                      /\ review.analysis_label = "partially helpful"
                      /\ review.color_class = "status-orange"
                /\ score < 360 =>
                      /\ review.analysis_label = "not helpful"
                      /\ review.color_class = "status-red"

\* A safe batch with a partially helpful review that scores between 70 and 76.
C21_Witness ==
    /\ Analysed
    /\ AnalysisResult.verdict = "safe"
    /\ \E i \in DOMAIN AnalysisResult.enriched_reviews :
          LET review == AnalysisResult.enriched_reviews[i]
          IN  /\ review.reliability_score > 700
              /\ review.reliability_score < 760
              /\ review.analysis_label = "partially helpful"
              /\ review.color_class = "status-orange"

\* The analyses created by a request.
Created == (Len(SampleAnalyses) + 1)..Len(analyses)

\* C22: an analysis whose analyzer step erred (non-zero exit, success =
\* false, scorer or classifier not loaded, no review with text) is failed
\* with an error message, and a completed analysis has the verdict safe,
\* suspicious or malicious.
C22_AnalyzerErrorFails ==
    \A a \in Created :
        /\ task[a].outcome \in {"exit code", "success false", "model not loaded",
                                 "no review with text"} =>
              /\ analyses[a].status = "failed"
              /\ analyses[a].error_message # NullText
        /\ analyses[a].status = "completed" =>
              analyses[a].verdict \in {"safe", "suspicious", "malicious"}

\* C23: an analysis whose analyzer subprocess exceeded its time limit is
\* failed with the message that it timed out, has no verdict and no
\* confidence, and stays so.
C23_TimeoutFails ==
    \A a \in Created :
        task[a].outcome = "timed out" =>
            /\ analyses[a].status = "failed"
            /\ analyses[a].error_message = "AI analysis timed out"
            /\ analyses[a].verdict = NullText
            /\ analyses[a].confidence = NullNumber

\* One analysis timed out and, after it, another one was completed.
C23_Witness ==
    \E a, b \in Created :
        /\ a < b
        /\ task[a].outcome = "timed out"
        /\ analyses[a].status = "failed"
        /\ task[b].outcome = "analysed"
        /\ analyses[b].status = "completed"

\* C24: every analysis whose status is failed has a non-empty error_message.
C24_FailedHasMessage ==
    \A a \in 1..Len(analyses) :
        analyses[a].status = "failed" => analyses[a].error_message # NullText

\* C25: while train_random_forest is between its first commit and its last, or
\* was cut short there by the death of the process, the job's row says running
\* or failed, never pending; and when it returns the row says completed or
\* failed.
C25_StatusBeforeWork ==
    [][/\ \A w \in Workers :
             /\ wk'[w].pc \in TrainingSteps =>
                    jobs'[wk'[w].job].status \in {"running", "failed"}
             /\ (wk[w].pc \in TrainingSteps /\ wk'[w].pc \in {"loop", "register"}) =>
                    jobs'[wk[w].job].status \in {"completed", "failed"}
       /\ \A j \in crashed' : jobs'[j].status \in {"running", "failed"}]_vars

\* A run died in the middle of training a job, and a later run is training
\* another job.
C25_Witness ==
    /\ \E j \in crashed : jobs[j].status = "running"
    /\ \E w \in Workers : wk[w].pc \in TrainingSteps /\ wk[w].job \notin crashed

VersionLess(a, b) == a[1] < b[1] \/ (a[1] = b[1] /\ a[2] < b[2])

\* C26: every model version registered is greater than every version that was
\* in the table before it (rows are numbered in the order they were added), so
\* no two rows carry the same version.
C26_VersionsIncrease ==
    \A i, j \in 1..Len(models) : i < j => VersionLess(models[i].version, models[j].version)

\* The server started once and two retrainings registered a version each.
C26_Witness ==
    /\ Len(models) >= 3
    /\ \A m \in 2..Len(models) : models[m].artifact_url # BaseArtifact

\* The rows combine_data uses of a frame: none when it is absent or empty.
Used(df) == IF Usable(df) THEN df.rows ELSE <<>>

CombineCalled == call.fn = "combine_data"

\* C27: combine_data returns the original rows followed by the feedback rows,
\* each in input order, tagged original / feedback, as many as both inputs
\* together, texts and labels unchanged; with both inputs missing or empty it
\* raises, and that ends the training job failed.
C27_CombineData ==
    /\ [](CombineCalled =>
            LET o == Used(call.original_df)
                f == Used(call.feedback_df)
                r == call.result
            IN  IF o = <<>> /\ f = <<>>
                THEN r.raised
                ELSE /\ ~r.raised
                     /\ Len(r.combined_df) = Len(o) + Len(f)
                     /\ \A i \in 1..Len(o) :
                           r.combined_df[i] = [text |-> o[i].text, label |-> o[i].label,
                                               source |-> "original"]
                     /\ \A i \in 1..Len(f) :
                           r.combined_df[Len(o) + i] = [text |-> f[i].text, label |-> f[i].label,
                                                        source |-> "feedback"])
    /\ [][\A w \in Workers, original \in OriginalData :
            (/\ wk[w].pc = "load"
             /\ ~(original.present /\ original.n1 + original.n0 > 0)
             /\ feedbacks = {}
             /\ train_load_with(w, original))
            => jobs'[wk[w].job].status = "failed"]_vars

\* combine_data was called with two original rows and two feedback rows that
\* differ in text and label.
C27_Witness ==
    /\ CombineCalled
    /\ Len(Used(call.original_df)) = MaxRows
    /\ Len(Used(call.feedback_df)) = MaxRows
    /\ call.original_df.rows # call.feedback_df.rows
    /\ call.original_df.rows[1] # call.original_df.rows[2]
    /\ ~call.result.raised

\* The script ran with its model loaded and predict raised on a review.
ScoringFailed ==
    /\ call.fn = "main"
    /\ call.model_loaded
    /\ \E i \in DOMAIN call.final_scores : call.final_scores[i] = PredictRaises

\* C28: when scoring one review of a batch fails, the batch is still analysed:
\* it gets a verdict, the other reviews keep their scores and the failing
\* review gets the score zero.
C28_ScoringErrorTolerated ==
    ScoringFailed =>
        /\ call.output.success
        /\ call.output.result.verdict \in {"safe", "suspicious", "malicious"}
        /\ Len(call.output.result.enriched_reviews) = Len(call.final_scores)
        /\ \A i \in DOMAIN call.final_scores :
              call.output.result.enriched_reviews[i].reliability_score =
                 IF call.final_scores[i] = PredictRaises THEN 0 ELSE call.final_scores[i]

\* The script ran and returned an analysis.
RunAnalysed == call.fn = "main" /\ call.output.success /\ call.output.result.verdict # "error"

\* C29: the enriched reviews run returns are the input reviews, as many and in
\* the same order, each with its other fields kept and with a score, a label
\* and a display class.
C29_SameReviews ==
    RunAnalysed =>
        /\ Len(call.output.result.enriched_reviews) = Len(call.reviews)
        /\ \A i \in DOMAIN call.output.result.enriched_reviews :
              /\ i \in DOMAIN call.reviews
              /\ call.output.result.enriched_reviews[i].id = call.reviews[i].id
              /\ call.output.result.enriched_reviews[i].content = call.reviews[i].content
              /\ {"reliability_score", "analysis_label", "color_class"}
                    \subseteq DOMAIN call.output.result.enriched_reviews[i]

\* Every review of the batch has a score strictly between 40 and 80.
AllMiddle(reviews) ==
    \A i \in DOMAIN reviews :
       get_reliability_score(reviews[i]) > 400 /\ get_reliability_score(reviews[i]) < 800

\* The commit of a submission counts as a success that saved nothing: 200,
\* zero saved, every review with text skipped, no row left for the analysis.
NothingSavedIsSuccess(r) ==
    /\ resp'[r].code = 200
    /\ resp'[r].saved = 0
    /\ resp'[r].feedback_count = 0
    /\ resp'[r].skipped = Len(WithText(req[r].all_reviews))
    /\ RowsOf(feedbacks', req[r].analysis_id) = {}

\* C30 as stated: a submission with strategy extreme on a batch whose scores
\* all lie strictly between 40 and 80 is a success that reports zero saved and
\* all reviews with text as excluded, and leaves no row for the batch.
C30_ExtremeExcludesAll ==
    [][\A r \in Requests :
          (/\ req[r].pc = "commit"
           /\ req[r].strategy = "extreme"
           /\ AllMiddle(req[r].all_reviews)
           /\ commit_feedback(r))
          => NothingSavedIsSuccess(r)]_vars

\* The same for batches in which at least one review has text.
ExtremeExcludesAllWithText ==
    [][\A r \in Requests :
          (/\ req[r].pc = "commit"
           /\ req[r].strategy = "extreme"
           /\ AllMiddle(req[r].all_reviews)
           /\ WithText(req[r].all_reviews) # <<>>
           /\ commit_feedback(r))
          => NothingSavedIsSuccess(r)]_vars

\* A first submission stored rows for the batch of analysis 2, whose scores are
\* 60, 70 and 45; the second, with strategy extreme, was answered 200 and the
\* table is empty.
ExtremeExcludedAll ==
    /\ submits = 2
    /\ next_feedback_id > 1
    /\ feedbacks = {}
    /\ resp[1].code = 200
    /\ resp[1].saved = 0
    /\ resp[1].skipped = 2
    /\ saved_by[1].analysis_id = 2
    /\ saved_by[1].strategy = "extreme"
    /\ AllMiddle(SampleAnalyses[2].top_reviews \o SampleAnalyses[2].worst_reviews)

\* C31: for an empty text predict returns 0.0 without extracting features and
\* without calling the classifier, whatever the loaded model would give, and
\* it never raises.
C31_EmptyTextScoresZero ==
    (call.fn \in {"predict", "predict raises"} /\ call.text.len = 0) =>
        /\ call.fn = "predict"
        /\ call.result = 0
        /\ call.model_calls = {}

\* The empty text scored 0.0 with a classifier that gives probability 1.
C31_Witness ==
    /\ call.fn = "predict"
    /\ call.text.len = 0
    /\ call.p = ProbUnit
    /\ call.result = 0
    /\ call.model_calls = {}

\* The run that handled job j has left it behind.
Finished(j) == \A w \in Workers : wk[w].job # j

\* C32: once processing of a job has finished with the job completed, a model
\* version is registered for it: one step above the version before it,
\* pointing at the job's output directory, with every earlier version
\* inactive.
C32_CompletedJobHasVersion ==
    \A j \in JobIds :
        (jobs[j].status = "completed" /\ Finished(j)) =>
            \E m \in 2..Len(models) :
               /\ \E e \in ArtifactsOf(j) : models[m].artifact_url = e.dir
               /\ models[m].version = NewVersion(models[m - 1].version)
               /\ \A n \in 1..(m - 1) : ~models[n].active

Terminal == {"completed", "failed"}

\* The run of w returns (its process did not die).
Returns(w) == wk[w].pc # "idle" /\ wk'[w].pc = "idle" /\ crashed' = crashed

\* While it runs, the run of w takes the jobs of its pending list one at a
\* time from the head, the list being in submission order; a job leaves the
\* list completed or failed, and a completed or failed job stays as it is.
HandlesInOrder(w) ==
    /\ (wk[w].pc # "idle" /\ wk'[w].pc # "idle" /\ wk'[w].pending # wk[w].pending) =>
          /\ wk[w].pending # <<>>
          /\ wk'[w].pending = Tail(wk[w].pending)
          /\ jobs'[Head(wk[w].pending)].status \in Terminal
    /\ wk'[w].pc # "idle" =>
          \A i, k \in 1..Len(wk'[w].pending) : i < k => wk'[w].pending[i] < wk'[w].pending[k]
    /\ (wk[w].pc = "loop" /\ wk'[w].pc = "train") => wk'[w].job = Head(wk[w].pending)
    /\ \A j \in JobIds : jobs[j].status \in Terminal => jobs'[j] = jobs[j]

TaskRuns(a) == a <= Len(analyses) /\ task[a].pc # "done"

Ended(a) == a <= Len(analyses) /\ analyses[a].status \in {"completed", "failed"}

\* C34: every analysis whose background task runs eventually is completed or
\* failed, whatever the crawl and the analyzer subprocess come to.
C34_AnalysisEnds == \A a \in TaskIds : TaskRuns(a) ~> Ended(a)

\* Both analyses created here have ended, one after a non-zero exit of the
\* analyzer and one after a crawl that raised.
C34_Witness ==
    /\ Len(analyses) = Len(SampleAnalyses) + MaxAnalyses
    /\ \A a \in Created : Ended(a) /\ task[a].pc = "done"
    /\ \E a \in Created : task[a].outcome = "exit code"
    /\ \E a \in Created : analyses[a].error_message = "exception"

\* Request r ends in this step with the given code.
Answers(r, code) == req[r].pc # "idle" /\ req'[r].pc = "idle" /\ resp'[r].code = code

\* C35: a submission that fails after its DELETE leaves the stored rows as
\* they were before the call, and while a submission is between its DELETE
\* and its commit the stored rows still hold the old set and none of the new.
C35_ReplacementAllOrNothing ==
    /\ [](\A r \in Requests : req[r].pc = "commit" =>
             req[r].deleted = RowsOf(feedbacks, req[r].analysis_id))
    /\ [][\A r \in Requests : (req[r].pc = "commit" /\ Answers(r, 500)) =>
             feedbacks' = feedbacks]_vars

\* The DELETE removed stored rows, the loop has rows to insert, and the
\* exception strikes here.
C35_Witness ==
    /\ req[1].pc = "commit"
    /\ req[1].deleted # {}
    /\ Labelled(req[1]).rows # <<>>
    /\ ENABLED rollback_feedback(1)

\* A submission arrives in this step.
Arrives == submits' = submits + 1

HasReviews(a) == analyses[a].top_reviews \o analyses[a].worst_reviews # <<>>

\* C36: an unknown analysis answers 404, one that is queued, processing or
\* failed or has no stored review answers 400, a refused submission leaves
\* every stored row as it was, and every stored row belongs to an analysis
\* that exists, is completed and has a stored review.
C36_RowsOnlyForCompleted ==
    /\ [](/\ http_error(Len(analyses) + 1) = 404
          /\ \A a \in 1..Len(analyses) :
                /\ analyses[a].status \in {"queued", "processing", "failed"}
                       => http_error(a) = 400
                /\ ~HasReviews(a) => http_error(a) = 400
                /\ http_error(a) \in {0, 400}
          /\ \A f \in feedbacks :
                /\ f.analysis_id \in 1..Len(analyses)
                /\ analyses[f.analysis_id].status = "completed"
                /\ HasReviews(f.analysis_id))
    /\ [][Arrives =>
             /\ feedbacks' = feedbacks
             /\ \E r \in Requests :
                   /\ req[r].pc = "idle"
                   /\ IF req'[r].pc = "idle"
                      THEN resp'[r].code \in {400, 404} /\ req' = req
                      ELSE http_error(req'[r].analysis_id) = 0 /\ resp' = resp]_vars

\* A submission was refused with 404 after an earlier one had stored rows,
\* which are still there.
C36_Witness ==
    /\ resp[1].code = 404
    /\ req[1].pc = "idle"
    /\ saved_by[1].rows # {}
    /\ saved_by[1].rows \subseteq feedbacks

\* C37: a submission for one analysis, whether it succeeds or fails, leaves
\* the stored rows of every other analysis as they were and leaves the
\* analyses (status, verdict, confidence, stored reviews) unchanged.
C37_SubmitFrame ==
    [][/\ analyses' = analyses
       /\ \/ feedbacks' = feedbacks
          \/ \E r \in Requests :
                /\ req[r].pc = "commit"
                /\ req'[r].pc = "idle"
                /\ \A a \in 1..(Len(analyses) + 1) :
                      a # req[r].analysis_id =>
                          RowsOf(feedbacks', a) = RowsOf(feedbacks, a)]_vars

\* A submission for analysis 2 stored its rows while rows of analysis 1 were
\* stored, and those are still there.
C37_Witness ==
    \E r \in Requests :
        /\ resp[r].code = 200
        /\ saved_by[r].analysis_id = 2
        /\ saved_by[r].rows # {}
        /\ saved_by[r].rows = RowsOf(feedbacks, 2)
        /\ RowsOf(feedbacks, 1) # {}

\* C38: after a successful submission feedback_count is the number of rows
\* stored for the analysis and is label_0 + label_1, and saved + skipped is
\* the number of reviews that have text.
C38_CountsAgree ==
    [][\A r \in Requests : Answers(r, 200) =>
          /\ resp'[r].feedback_count = Cardinality(RowsOf(feedbacks', req[r].analysis_id))
          /\ resp'[r].feedback_count = resp'[r].label_0 + resp'[r].label_1
          /\ resp'[r].label_0 =
                 Cardinality({ f \in RowsOf(feedbacks', req[r].analysis_id) : f.tags = 0 })
          /\ resp'[r].saved = resp'[r].feedback_count
          /\ resp'[r].saved + resp'[r].skipped = Len(WithText(req[r].all_reviews))
          /\ resp'[r].total_reviews = Len(req[r].all_reviews)]_vars

\* A successful submission for the batch that holds a review without text:
\* three reviews, the two with text stored, the third neither stored nor
\* counted as skipped.
C38_Witness ==
    /\ resp[1].code = 200
    /\ resp[1].total_reviews = 3
    /\ resp[1].saved = 2
    /\ resp[1].skipped = 0
    /\ saved_by[1].analysis_id = 2
    /\ Cardinality(RowsOf(feedbacks, 2)) = resp[1].feedback_count

\* The score equals the batch average.
AtAverage(score, avg_score) == score * avg_score.n = avg_score.sum

\* The one case in which the satisfaction decides the label.
SatisfactionDecides(strategy, score, avg_score) ==
    /\ AtAverage(score, avg_score)
    /\ \/ strategy = "relative"
       \/ strategy = "hybrid" /\ 350 < score /\ score < 850

\* The labels of a request and of the same request with is_helpful negated.
SameLabelsUnlessAtAverage(request) ==
    LET scores == [i \in 1..Len(request.all_reviews) |->
                      get_reliability_score(request.all_reviews[i])]
        satisfied == Labelled([request EXCEPT !.is_helpful = TRUE]).rows
        unsatisfied == Labelled([request EXCEPT !.is_helpful = FALSE]).rows
    IN  /\ Len(satisfied) = Len(unsatisfied)
        /\ \A i \in 1..Len(satisfied) :
              /\ satisfied[i].review_text = unsatisfied[i].review_text
              /\ satisfied[i].original_score = unsatisfied[i].original_score
              /\ IF SatisfactionDecides(request.strategy, satisfied[i].original_score,
                                        mean(scores))
                 THEN satisfied[i].tags = 0 /\ unsatisfied[i].tags = 1
                 ELSE satisfied[i].tags = unsatisfied[i].tags

\* C39: with the strategies extreme, hybrid and relative the label, or the
\* exclusion, of a review is the same for a satisfied and an unsatisfied user,
\* except for a score equal to the batch average under relative or in the
\* middle band of hybrid, which is 0 for a satisfied and 1 for an unsatisfied
\* user; two submissions that differ in is_helpful only store the same labels
\* for every review whose score is not the batch average.
C39_LabelIgnoresSatisfaction ==
    /\ call.fn = "smart_label_extreme" =>
          smart_label_extreme(call.score, 1 - call.user_satisfaction) = call.result
    /\ call.fn = "smart_label_hybrid" =>
          LET other == smart_label_hybrid(call.score, call.avg_score,
                                          1 - call.user_satisfaction)
          IN  IF SatisfactionDecides("hybrid", call.score, call.avg_score)
              THEN /\ call.result = 1 - call.user_satisfaction
                   /\ other = call.user_satisfaction
              ELSE other = call.result
    /\ call.fn = "smart_label_relative" =>
          LET other == smart_label_relative(call.score, call.avg_score,
                                            1 - call.user_satisfaction)
          IN  IF SatisfactionDecides("relative", call.score, call.avg_score)
              THEN /\ call.result = 1 - call.user_satisfaction
                   /\ other = call.user_satisfaction
              ELSE other = call.result
    /\ \A r \in Requests :
          (req[r].pc = "commit" /\ req[r].strategy \in {"extreme", "hybrid", "relative"})
              => SameLabelsUnlessAtAverage(req[r])

\* A satisfied user's hybrid submission for the batch with scores 90, 10 and
\* 50 (average 50) was stored: the review at the average is labelled 0 and
\* would be labelled 1 for an unsatisfied user, the other two are labelled
\* alike.
C39_Witness ==
    /\ resp[1].code = 200
    /\ saved_by[1].strategy = "hybrid"
    /\ saved_by[1].is_helpful
    /\ SavedBatch = SampleAnalyses[1].top_reviews \o SampleAnalyses[1].worst_reviews
    /\ \E f \in saved_by[1].rows : f.original_score = 500 /\ f.tags = 0
    /\ LET unsatisfied == Labelled([IdleRequest EXCEPT !.analysis_id = 1,
                                       !.strategy = "hybrid", !.is_helpful = FALSE,
                                       !.all_reviews = SavedBatch]).rows
       IN  /\ unsatisfied[3].original_score = 500 /\ unsatisfied[3].tags = 1
           /\ \A i \in 1..2 : \E f \in saved_by[1].rows :
                 /\ f.original_score = unsatisfied[i].original_score
                 /\ f.tags = unsatisfied[i].tags

====
